---- MODULE Spec2Model ----
(***************************************************************************)
(* Device test orchestration of bitchat-rust (scripts/device-testing):     *)
(*   orchestrator.py         DeviceManager, TestRunner (the scheduler),     *)
(*                           ReportGenerator, main                          *)
(*   performance_monitor.py  DeviceMonitor (the background sampler),        *)
(*                           PerformanceAnalyzer                            *)
(*   device_test_runner.py   DeviceTestRunner, main                         *)
(* Threads are interleaved at the points where they touch shared state:    *)
(* the Device records, the results list, the worker pool, the sampler's    *)
(* flag and queue.                                                         *)
(***************************************************************************)
EXTENDS Integers, Sequences, FiniteSets, TLC

\* ------------------------------------------------------------------ bounds
NumDevices == 2
NumTests == 2
MaxWorkers == 2

\* --------------------------------------------------------- program constants
\* Device.battery_level and Device.temperature before the first refresh.
DefaultBatteryLevel == -1
DefaultTemperature == 0

\* TestRunner._load_test_suite: the names, in the order of the list.
SuiteNames ==
    <<"BLEDiscoveryTest", "ConnectionStabilityTest", "MeshFormationTest",
      "ConsensusTest", "BatteryDrainTest">>

TimedOutText == "Test timed out"

\* The timeout of BLEDiscoveryTest, in seconds.
TimeoutSeconds == 30

\* ------------------------------------------------------------------- state
VARIABLES
    devices,          \* DeviceManager.devices: id -> Device record
    test_suite,       \* TestRunner.test_suite: sequence of test names
    max_workers,      \* argument of run_parallel_tests
    results,          \* TestRunner.results
    mainPc,           \* position of the thread inside run_parallel_tests
    waitIdx,          \* index into futures of the future being waited for
    pc,               \* position of each submitted run_test_on_device call
    initial_battery,  \* local of run_test_on_device
    ret,              \* (success, output, metrics) returned by _run_*_test
    battery_drain,    \* local of run_test_on_device
    final_read,       \* the values read at lines 286-287
    history,          \* what is remembered of each running execution
    attempts,         \* how many times the test-run of each pair was called
    pending,          \* the answer a status refresh in progress is writing
    exited,           \* the exit status of main, <<>> while it runs
    reports,          \* number of save_reports calls of main
    md_report,        \* what generate_markdown_report returned
    json_report,      \* what generate_json_report returned
    \* performance_monitor.py: one DeviceMonitor and the thread that calls it
    monitoring,       \* DeviceMonitor.monitoring
    monitor_thread,   \* DeviceMonitor.monitor_thread: a thread id, 0 for None
    metrics_queue,    \* DeviceMonitor.metrics_queue
    loops,            \* position of each thread running _monitor_loop
    callerPc,         \* position of the thread calling the DeviceMonitor
    produced,         \* number of samples collect_metrics has produced
    collected,        \* the samples get_metrics has taken from the queue
    failures,         \* the values of produced at which an attempt failed
    idle_stop,        \* stop_monitoring has been called on a sampler not Running
    \* device_test_runner.py: main and its DeviceTestRunner
    sys_platform,     \* sys.platform
    runner_devices,   \* DeviceTestRunner.devices
    runner_results,   \* DeviceTestRunner.results
    runnerPc,         \* position of main
    scenario,         \* index of the scenario run_tests is at
    device_idx,       \* index into devices of the device run_tests is at
    listed,           \* the devices the listing commands have listed
    runner_exited,    \* the exit status of main, <<>> while it runs
    \* performance_monitor.py: one PerformanceAnalyzer and the threads calling it
    metrics_history,  \* PerformanceAnalyzer.metrics_history: device -> list
    lists,            \* the list objects metrics_history refers to
    adders,           \* position and locals of each add_metrics call
    perf_report,      \* what PerformanceAnalyzer.generate_report returned
    \* performance_monitor.py: one AndroidMonitor's network counters
    last_network_stats,  \* AndroidMonitor.last_network_stats, <<>> for None
    net_log,          \* every _parse_network_stats call: input, result, baseline
    \* battery_tracker.py: one BatteryTracker, its caller and its loops
    current_phase,    \* BatteryTracker.current_phase: a phase object, 0 for None
    phases,           \* BatteryTracker.phases
    phase_objects,    \* the BatteryTestPhase objects made so far
    tracking,         \* BatteryTracker.monitoring
    tracker_thread,   \* BatteryTracker.monitor_thread: a thread id, 0 for None
    tracker_loops,    \* position and locals of each thread in _monitor_loop
    taken,            \* number of snapshots get_battery_snapshot has returned
    trackerPc,        \* position of the thread calling the BatteryTracker
    tracker_call      \* the call of that thread in progress, or its last call

schedulerVars ==
    <<devices, test_suite, max_workers, results, mainPc, waitIdx, pc,
      initial_battery, ret, battery_drain, final_read, history, attempts,
      pending>>

\* main of orchestrator.py and its ReportGenerator.
mainVars == <<exited, reports, md_report, json_report>>

monitorVars ==
    <<monitoring, monitor_thread, metrics_queue, loops, callerPc, produced,
      collected, failures, idle_stop>>

runnerVars ==
    <<sys_platform, runner_devices, runner_results, runnerPc, scenario,
      device_idx, listed, runner_exited>>

analyzerVars == <<metrics_history, lists, adders, perf_report>>

networkVars == <<last_network_stats, net_log>>

trackerVars ==
    <<current_phase, phases, phase_objects, tracking, tracker_thread,
      tracker_loops, taken, trackerPc, tracker_call>>

vars ==
    <<schedulerVars, mainVars, monitorVars, runnerVars, analyzerVars,
      networkVars, trackerVars>>

\* The programs and classes orchestrator.py does not use: it imports and
\* constructs nothing of performance_monitor.py and device_test_runner.py.
otherPrograms ==
    <<monitorVars, runnerVars, analyzerVars, networkVars, trackerVars>>

\* What TestRunner leaves alone.
elsewhere == <<mainVars, otherPrograms>>

\* What a step of TestRunner other than the test-run and the status refresh
\* leaves alone.
notScheduler == <<elsewhere, attempts, pending>>

\* What a step of the DeviceMonitor leaves alone.
notMonitor ==
    <<schedulerVars, mainVars, runnerVars, analyzerVars, networkVars, trackerVars>>

\* What main of device_test_runner.py leaves alone.
notRunner ==
    <<schedulerVars, mainVars, monitorVars, analyzerVars, networkVars, trackerVars>>

\* What a call of the PerformanceAnalyzer leaves alone.
notAnalyzer ==
    <<schedulerVars, mainVars, monitorVars, runnerVars, networkVars, trackerVars>>

\* What a call of _parse_network_stats leaves alone.
notNetwork ==
    <<schedulerVars, mainVars, monitorVars, runnerVars, analyzerVars, trackerVars>>

\* What a step of the BatteryTracker, its caller or its loops leaves alone.
notTracker ==
    <<schedulerVars, mainVars, monitorVars, runnerVars, analyzerVars, networkVars>>

DeviceIds == 1..NumDevices

\* Ids are numbered in the order discovery registers them: the Android devices
\* first (line 62), then the iOS device (line 63).
Platform(d) == IF d = NumDevices THEN "ios" ELSE "android"

Device(d) ==
    [id |-> d, platform |-> Platform(d),
     battery_level |-> DefaultBatteryLevel, temperature |-> DefaultTemperature]

\* The (test, device) pairs, and the order run_parallel_tests submits them in:
\* tests in the outer loop, devices in the inner loop.
Pairs == (1..Len(test_suite)) \X DOMAIN devices

\* The place of device d in devices.values(): the dict keeps the order in
\* which discovery registered the devices.
Rank(d) == Cardinality({e \in DOMAIN devices : e <= d})

SubmitOrder(p) == (p[1] - 1) * Cardinality(DOMAIN devices) + Rank(p[2])

PairAt(i) == CHOOSE p \in Pairs : SubmitOrder(p) = i

NumPairs == Len(test_suite) * Cardinality(DOMAIN devices)

\* ------------------------------------------------ DeviceManager: status refresh
\* What a status query can come back with: the command raised (timeout, tool
\* missing), or it printed lines. A line is [key, ok, val]: ok = FALSE is a
\* value int() raises on.
Line(key, val) == [key |-> key, ok |-> TRUE, val |-> val]

BadLine(key) == [key |-> key, ok |-> FALSE, val |-> 0]

Raised == [raised |-> TRUE, lines |-> <<>>]

Printed(lines) == [raised |-> FALSE, lines |-> lines]

\* The for loop of _update_android_status from line i on: an exception leaves
\* the loop, and the fields already assigned stay assigned.
RECURSIVE AndroidLines(_, _, _)
AndroidLines(dev, lines, i) ==
    IF i > Len(lines) THEN dev
    ELSE IF lines[i].key = "level"
    THEN IF lines[i].ok
         THEN AndroidLines([dev EXCEPT !.battery_level = lines[i].val], lines, i + 1)
         ELSE dev
    ELSE IF lines[i].key = "temperature"
    THEN IF lines[i].ok
         THEN AndroidLines([dev EXCEPT !.temperature = lines[i].val \div 10], lines, i + 1)
         ELSE dev
    ELSE AndroidLines(dev, lines, i + 1)

\* The for loop of _update_ios_status from line i on.
RECURSIVE IosLines(_, _, _)
IosLines(dev, lines, i) ==
    IF i > Len(lines) THEN dev
    ELSE IF lines[i].key = "BatteryCurrentCapacity"
    THEN IF lines[i].ok
         THEN IosLines([dev EXCEPT !.battery_level = lines[i].val], lines, i + 1)
         ELSE dev
    ELSE IosLines(dev, lines, i + 1)

update_android_status(dev, answer) ==
    IF answer.raised THEN dev ELSE AndroidLines(dev, answer.lines, 1)

update_ios_status(dev, answer) ==
    IF answer.raised THEN dev ELSE IosLines(dev, answer.lines, 1)

\* DeviceManager.update_device_status: the device table after the refresh of
\* device_id that got `answer`.
update_device_status(devs, device_id, answer) ==
    IF device_id \notin DOMAIN devs THEN devs
    ELSE IF devs[device_id].platform = "android"
    THEN [devs EXCEPT ![device_id] = update_android_status(devs[device_id], answer)]
    ELSE IF devs[device_id].platform = "ios"
    THEN [devs EXCEPT ![device_id] = update_ios_status(devs[device_id], answer)]
    ELSE devs

\* ----------------------------------------------------- TestRunner: one test-run
EmptyMetrics == [k \in {} |-> 0]

\* metrics[key] = value of a Python dict.
SetItem(m, key, value) ==
    [k \in DOMAIN m \cup {key} |-> IF k = key THEN value ELSE m[k]]

\* What the instrumented test printed; `marker in stdout` is read off the text.
AndroidPassOut == "OK (1 test)"

AndroidFailOut == "FAILURES!!! Tests run: 1, Failures: 1"

IosPassOut == "** TEST SUCCEEDED **"

IosFailOut == "** TEST FAILED **"

Contains(stdout, marker) ==
    \/ marker = "FAILURES!!!" /\ stdout = AndroidFailOut
    \/ marker = "TEST SUCCEEDED" /\ stdout = IosPassOut

\* An exception raised by subprocess.run; str(e) is its message.
TimeoutExpired ==
    [type |-> "TimeoutExpired", msg |-> "Command timed out after 30 seconds"]

NoError == [type |-> "", msg |-> ""]

AdbMissing ==
    [type |-> "FileNotFoundError",
     msg |-> "[Errno 2] No such file or directory: 'adb'"]

XcodeMissing ==
    [type |-> "FileNotFoundError",
     msg |-> "[Errno 2] No such file or directory: 'xcodebuild'"]

\* The exception's type name in place of its message.
Str_TypeName(e) == e.type

Str(e) == e.msg

\* One command of a test-run: it returned stdout, timed out, or raised.
Returned(stdout) == [kind |-> "returned", stdout |-> stdout, error |-> NoError]

TimedOut == [kind |-> "timeout", stdout |-> "", error |-> TimeoutExpired]

Failed(e) == [kind |-> "error", stdout |-> "", error |-> e]

NotRun == [kind |-> "not_run", stdout |-> "", error |-> NoError]

Tuple(success, output, metrics) ==
    [success |-> success, output |-> output, metrics |-> metrics]

\* The except clauses without the TimeoutExpired one.
ExceptClause_NoTimeoutBranch(cmd, metrics) == Tuple(FALSE, cmd.error.msg, metrics)

\* The except clauses of _run_android_test and _run_ios_test, for the command
\* `cmd` that did not return; metrics is the local as assigned so far.
ExceptClause(cmd, metrics) ==
    IF cmd.kind = "timeout"
    THEN Tuple(FALSE, TimedOutText, metrics)
    ELSE Tuple(FALSE, Str(cmd.error), metrics)

\* TestRunner._run_android_test. b = [clear, instr, dump, parsed]: the three
\* adapter commands in the order of the try block, and what
\* _parse_android_metrics reads from the dumped log.
run_android_test(b) ==
    IF b.clear.kind # "returned" THEN ExceptClause(b.clear, EmptyMetrics)
    ELSE IF b.instr.kind # "returned" THEN ExceptClause(b.instr, EmptyMetrics)
    ELSE IF b.dump.kind # "returned" THEN ExceptClause(b.dump, EmptyMetrics)
    ELSE Tuple(~Contains(b.instr.stdout, "FAILURES!!!"), b.instr.stdout, b.parsed)

\* TestRunner._run_ios_test. b = [instr, parsed].
run_ios_test(b) ==
    IF b.instr.kind # "returned" THEN ExceptClause(b.instr, EmptyMetrics)
    ELSE Tuple(Contains(b.instr.stdout, "TEST SUCCEEDED"), b.instr.stdout, b.parsed)

Behaviour(clear, instr, dump, parsed) ==
    [clear |-> clear, instr |-> instr, dump |-> dump, parsed |-> parsed]

\* The commands a behaviour really ran: a command after one that did not
\* return is never started.
Ran(b) ==
    IF b.clear.kind # "returned" THEN [b EXCEPT !.instr = NotRun, !.dump = NotRun]
    ELSE IF b.instr.kind # "returned" THEN [b EXCEPT !.dump = NotRun]
    ELSE b


\* ------------------------------------------------------- the adapter's answers
\* Battery levels a device reports (percent) and the temperature (tenths of a
\* degree, as dumpsys prints it).
LevelHigh == 80
LevelLow == 79
RawTemperature == 300

Levels == {LevelHigh, LevelLow}

AndroidAnswer(l) == Printed(<<Line("level", l), Line("temperature", RawTemperature)>>)

IosAnswer(l) == Printed(<<Line("BatteryCurrentCapacity", l)>>)

Answer(platform, l) == IF platform = "android" THEN AndroidAnswer(l) ELSE IosAnswer(l)

\* Every answer of the status query: it raised, or it printed a level.
StatusAnswers(platform) == {Raised} \cup {Answer(platform, l) : l \in Levels}

\* The answers of a device that answers every query.
LevelAnswers(platform) == {Answer(platform, l) : l \in Levels}

\* The answers a refresh fails on: the query raised, or a line holds a value
\* int() raises ValueError on, before or after a line that parses.
FailingAnswers(platform) ==
    {Raised} \cup
    IF platform = "android"
    THEN {Printed(<<Line("level", l), BadLine("temperature")>>) : l \in Levels}
            \cup {Printed(<<BadLine("level"), Line("temperature", RawTemperature)>>)}
    ELSE {Printed(<<BadLine("BatteryCurrentCapacity")>>)}

\* Every answer: the device's levels, and the answers a refresh fails on.
AllAnswers(platform) == LevelAnswers(platform) \cup FailingAnswers(platform)

\* The answers of a device whose battery holds its level.
SteadyAnswers(platform) == {Answer(platform, LevelHigh)}

\* A value _parse_android_metrics stores for a METRIC line: the number it
\* converted (lines 392-395), or the text itself when the conversion raised
\* ValueError (lines 396-397). _parse_ios_metrics stores numbers only.
Number(n) == [num |-> TRUE, n |-> n, text |-> ""]

Text(t) == [num |-> FALSE, n |-> 0, text |-> t]

ParsedLog == SetItem(EmptyMetrics, "latency_ms", Number(5))

\* The log of a test that reports its average, as a number or as a word.
ParsedAverage == SetItem(EmptyMetrics, "average", Number(2))

ParsedAverageText == SetItem(EmptyMetrics, "average", Text("fast"))

\* Every way the commands of an Android test-run can end.
AndroidBehaviours ==
    {Ran(Behaviour(c, i, d, IF d.kind = "returned" THEN ParsedLog ELSE EmptyMetrics)) :
        c \in {Returned(""), TimedOut, Failed(AdbMissing)},
        i \in {Returned(AndroidPassOut), Returned(AndroidFailOut), TimedOut,
               Failed(AdbMissing)},
        d \in {Returned(""), TimedOut, Failed(AdbMissing)}}

IosBehaviours ==
    {Behaviour(NotRun, i, NotRun, IF i.kind = "returned" THEN ParsedLog ELSE EmptyMetrics) :
        i \in {Returned(IosPassOut), Returned(IosFailOut), TimedOut,
               Failed(XcodeMissing)}}

TestBehaviours(platform) ==
    IF platform = "android" THEN AndroidBehaviours ELSE IosBehaviours

\* The four outcomes of the instrumented test itself (success, failure,
\* timeout, adapter error), the auxiliary commands returning.
TestOutcomes(platform) ==
    {b \in TestBehaviours(platform) : b.clear.kind # "timeout" /\ b.clear.kind # "error"
                                      /\ b.dump.kind # "timeout" /\ b.dump.kind # "error"}

\* The outcomes of the test itself, and the passing test that reports its
\* average: an Android test may log it as a word.
ReportedOutcomes(platform) ==
    TestOutcomes(platform)
        \cup {[b EXCEPT !.parsed = m] :
                b \in {c \in TestOutcomes(platform) :
                         c.instr.stdout \in {AndroidPassOut, IosPassOut}},
                m \in IF platform = "android"
                      THEN {ParsedAverage, ParsedAverageText}
                      ELSE {ParsedAverage}}

\* The test passes.
PassingOnly(platform) ==
    {b \in TestOutcomes(platform) : b.instr.stdout \in {AndroidPassOut, IosPassOut}}


\* ------------------------------------------------- DeviceMonitor (the sampler)
\* Bounds: the number of start_monitoring calls, and of samples produced.
MaxLoops == 2
MaxSamples == 2

LoopIds == 1..MaxLoops

\* main of device_test_runner.py before DeviceTestRunner(config) at line 539.
RunnerInit(platforms) ==
    /\ sys_platform \in platforms
    /\ runner_devices = <<>>
    /\ runner_results = <<>>
    /\ runnerPc = "discover_android"
    /\ scenario = 1
    /\ device_idx = 1
    /\ listed = {}
    /\ runner_exited = <<>>

\* No report generated yet.
NoReport == [kind |-> "none"]

\* Bound: the number of threads calling add_metrics.
NumAdders == 2

AdderIds == 1..NumAdders

NoCall == [pc |-> "idle", device_id |-> 0, ref |-> 0]

\* PerformanceAnalyzer.__init__, and no call yet.
AnalyzerInit ==
    /\ metrics_history = [d \in {} |-> 0]
    /\ lists = <<>>
    /\ adders = [t \in AdderIds |-> NoCall]
    /\ perf_report = NoReport

\* DeviceMonitor.__init__, and no thread yet.
MonitorInit ==
    /\ monitoring = FALSE
    /\ monitor_thread = 0
    /\ metrics_queue = <<>>
    /\ loops = [t \in LoopIds |-> "unborn"]
    /\ callerPc = "ready"
    /\ produced = 0
    /\ collected = <<>>
    /\ failures = {}
    /\ idle_stop = FALSE

\* The programs and classes beside orchestrator.py, before their first step.
\* AndroidMonitor.__init__, line 81: no baseline yet.
NoStats == <<>>

NetworkInit ==
    /\ last_network_stats = NoStats
    /\ net_log = <<>>

\* Bounds: the number of start_phase calls, and of snapshots taken.
MaxPhases == 2
MaxSnapshots == 2

PhaseIds == 1..MaxPhases

\* A BatteryTestPhase not made yet, and one as start_phase makes it (lines
\* 72-75): no end_time, no snapshots; reported is what end_phase printed.
NoPhase == [made |-> FALSE, ended |-> FALSE, snapshots |-> <<>>, reported |-> <<>>]

NewPhase == [made |-> TRUE, ended |-> FALSE, snapshots |-> <<>>, reported |-> <<>>]

\* A BatterySnapshot, lines 19-28: the fields the phase's properties read.
Snapshot(level, power) == [level |-> level, power |-> power]

NoSnapshot == Snapshot(0, 0)

\* A thread that has not been started.
Unborn == [pc |-> "unborn", snapshot |-> NoSnapshot, phase |-> 0]

\* BatteryTracker.__init__, lines 59-65.
TrackerInit ==
    /\ current_phase = 0
    /\ phases = <<>>
    /\ phase_objects = [p \in PhaseIds |-> NoPhase]
    /\ tracking = FALSE
    /\ tracker_thread = 0
    /\ tracker_loops = [t \in LoopIds |-> Unborn]
    /\ taken = 0
    /\ trackerPc = "ready"
    /\ tracker_call = "none"

OthersInit(platforms) ==
    /\ MonitorInit
    /\ RunnerInit(platforms)
    /\ AnalyzerInit
    /\ NetworkInit
    /\ TrackerInit

\* -------------------------------------------------------------- the scheduler
NoTuple == Tuple(FALSE, "", EmptyMetrics)

\* What is remembered of a running execution for the properties: the level its
\* own refreshes left in the record, how the commands of its test-run ended, the
\* steps it took, and whether it ever ran beside an execution of its device.
NoHistory == [pre |-> DefaultBatteryLevel, post |-> DefaultBatteryLevel,
              test |-> Behaviour(NotRun, NotRun, NotRun, EmptyMetrics),
              steps |-> <<>>, alone |-> TRUE]

NoRead == [battery_level |-> 0, temperature |-> 0]

\* The status fields of a device record.
Status(dev) == [battery_level |-> dev.battery_level, temperature |-> dev.temperature]

\* A status refresh inside its for loop: the lines of the answer, the index of
\* the line it is at, and the status fields as they were when the answer came.
Parsing(lines, dev) == [lines |-> lines, i |-> 1, before |-> Status(dev)]

\* No status refresh in progress.
NoPending == [lines |-> <<>>, i |-> 0, before |-> NoRead]

\* The state after DeviceManager() and TestRunner(device_manager), the suite
\* being the first n tests of _load_test_suite.
InitOn(n, platforms) ==
    /\ devices = [d \in DeviceIds |-> Device(d)]
    /\ test_suite = SubSeq(SuiteNames, 1, n)
    /\ max_workers \in 1..MaxWorkers
    /\ results = <<>>
    /\ mainPc = "start"
    /\ waitIdx = 0
    /\ pc = [p \in Pairs |-> "unsubmitted"]
    /\ initial_battery = [p \in Pairs |-> 0]
    /\ ret = [p \in Pairs |-> NoTuple]
    /\ battery_drain = [p \in Pairs |-> 0]
    /\ final_read = [p \in Pairs |-> NoRead]
    /\ history = [p \in Pairs |-> NoHistory]
    /\ attempts = [p \in Pairs |-> 0]
    /\ pending = [p \in Pairs |-> NoPending]
    /\ exited = <<>>
    /\ reports = 0
    /\ md_report = NoReport
    /\ json_report = NoReport
    /\ OthersInit(platforms)

InitWith(n) == InitOn(n, {"darwin"})

Init == InitWith(NumTests)

\* The calls of run_test_on_device the TestRunner has: one for each pair.
Executions == DOMAIN pc

\* The executions a worker thread is running.
Running == {p \in Pairs : pc[p] \notin {"unsubmitted", "queued", "done"}}

\* A pool that lets one work item too many start.
WorkerFree_OffByOne == Cardinality(Running) <= max_workers

\* ThreadPoolExecutor(max_workers): a work item starts only while fewer than
\* max_workers work items are running.
WorkerFree == Cardinality(Running) < max_workers

\* The executor's work queue is first in, first out.
HeadOfQueue(p) ==
    /\ pc[p] = "queued"
    /\ \A q \in Pairs : SubmitOrder(q) < SubmitOrder(p) => pc[q] # "queued"

\* run_parallel_tests, lines 428-431: every pair is submitted, test by test.
Submit ==
    /\ mainPc = "start"
    /\ pc' = [p \in Pairs |-> "queued"]
    /\ mainPc' = IF NumPairs = 0 THEN "shutdown" ELSE "wait"
    /\ waitIdx' = 1
    /\ UNCHANGED notScheduler
    /\ UNCHANGED <<devices, test_suite, max_workers, results, initial_battery,
                   ret, battery_drain, final_read, history>>

\* The loop over the futures outside a with block: after the last wait
\* run_parallel_tests returns, no shutdown(wait=True) in between.
AfterWait_NoWithBlock == IF waitIdx = NumPairs THEN "returned" ELSE "wait"

\* Lines 433-437: after the last future the with block of line 426 is left.
AfterWait == IF waitIdx = NumPairs THEN "shutdown" ELSE "wait"

\* future.result(timeout=...) returns: the execution is done.
WaitDone ==
    /\ mainPc = "wait"
    /\ pc[PairAt(waitIdx)] = "done"
    /\ mainPc' = AfterWait
    /\ waitIdx' = waitIdx + 1
    /\ UNCHANGED notScheduler
    /\ UNCHANGED <<devices, test_suite, max_workers, results, pc, initial_battery,
                   ret, battery_drain, final_read, history>>

\* future.result(timeout=...) raises TimeoutError, which line 436 catches and
\* logs: the loop goes on to the next future, and the execution goes on.
WaitTimeout ==
    /\ mainPc = "wait"
    /\ pc[PairAt(waitIdx)] # "done"
    /\ mainPc' = AfterWait
    /\ waitIdx' = waitIdx + 1
    /\ UNCHANGED notScheduler
    /\ UNCHANGED <<devices, test_suite, max_workers, results, pc, initial_battery,
                   ret, battery_drain, final_read, history>>

\* executor.shutdown(wait=False): the with block is left at once.
ShutdownReturns_NoWait == TRUE

\* What leaving the with block waits for: executor.shutdown(wait=True) returns
\* when every submitted work item has run to its end.
ShutdownReturns == \A p \in Pairs : pc[p] = "done"

Shutdown ==
    /\ mainPc = "shutdown"
    /\ ShutdownReturns
    /\ mainPc' = "returned"
    /\ UNCHANGED notScheduler
    /\ UNCHANGED <<devices, test_suite, max_workers, results, waitIdx, pc,
                   initial_battery, ret, battery_drain, final_read, history>>

SameDevice(p) == {q \in Running : q # p /\ q[2] = p[2]}

Step(p, name) == [history EXCEPT ![p].steps = Append(@, name)]

\* A worker takes the next work item and enters run_test_on_device.
Start(p) ==
    /\ HeadOfQueue(p)
    /\ WorkerFree
    /\ pc' = [pc EXCEPT ![p] = "pre_refresh"]
    /\ history' = [q \in Pairs |->
                     IF q = p THEN [history[q] EXCEPT !.alone = SameDevice(p) = {}]
                     ELSE IF q \in SameDevice(p) THEN [history[q] EXCEPT !.alone = FALSE]
                     ELSE history[q]]
    /\ UNCHANGED notScheduler
    /\ UNCHANGED <<devices, test_suite, max_workers, results, mainPc, waitIdx,
                   initial_battery, ret, battery_drain, final_read>>

\* Line 270: update_device_status before the test.
PreRefresh(p, answers) ==
    /\ pc[p] = "pre_refresh"
    /\ \E answer \in answers :
        /\ devices' = update_device_status(devices, p[2], answer)
        /\ history' = [Step(p, "pre_refresh") EXCEPT ![p].pre = devices'[p[2]].battery_level]
    /\ pc' = [pc EXCEPT ![p] = "read_initial"]
    /\ UNCHANGED notScheduler
    /\ UNCHANGED <<test_suite, max_workers, results, mainPc, waitIdx,
                   initial_battery, ret, battery_drain, final_read>>

\* Line 271: initial_battery = device.battery_level.
ReadInitial(p) ==
    /\ pc[p] = "read_initial"
    /\ initial_battery' = [initial_battery EXCEPT ![p] = devices[p[2]].battery_level]
    /\ pc' = [pc EXCEPT ![p] = "run_test"]
    /\ UNCHANGED notScheduler
    /\ UNCHANGED <<devices, test_suite, max_workers, results, mainPc, waitIdx,
                   ret, battery_drain, final_read, history>>

\* Lines 273-276: the platform's test-run.
run_test(platform, b) ==
    IF platform = "android" THEN run_android_test(b) ELSE run_ios_test(b)

\* A timed-out test-run that skips the refresh of line 279.
AfterRunTest_TimeoutSkipsRefresh(b) ==
    IF b.instr.kind = "timeout" THEN "read_drain" ELSE "post_refresh"

\* An adapter error that escapes _run_*_test: the work item ends with the
\* exception and records nothing.
AfterRunTest_ErrorEscapes(b) ==
    IF b.instr.kind = "error" THEN "done" ELSE "post_refresh"

\* A timed-out test-run that is run again.
AfterRunTest_RetryOnTimeout(b) ==
    IF b.instr.kind = "timeout" THEN "run_test" ELSE "post_refresh"

\* Where run_test_on_device goes on when the test-run has ended as b: both
\* _run_*_test catch every exception, so line 278 is next.
AfterRunTest(b) == "post_refresh"

RunTest(p, behaviours) ==
    /\ pc[p] = "run_test"
    /\ \E b \in behaviours :
        /\ ret' = [ret EXCEPT ![p] = run_test(devices[p[2]].platform, b)]
        /\ history' = [Step(p, "run_test") EXCEPT ![p].test = b]
        /\ pc' = [pc EXCEPT ![p] = AfterRunTest(b)]
    /\ attempts' = [attempts EXCEPT ![p] = @ + 1]
    /\ UNCHANGED <<elsewhere, pending>>
    /\ UNCHANGED <<devices, test_suite, max_workers, results, mainPc, waitIdx,
                   initial_battery, battery_drain, final_read>>

\* Line 279: update_device_status after the test.
PostRefresh(p, answers) ==
    /\ pc[p] = "post_refresh"
    /\ \E answer \in answers :
        /\ devices' = update_device_status(devices, p[2], answer)
        /\ history' = [Step(p, "post_refresh") EXCEPT ![p].post = devices'[p[2]].battery_level]
    /\ pc' = [pc EXCEPT ![p] = "read_drain"]
    /\ UNCHANGED notScheduler
    /\ UNCHANGED <<test_suite, max_workers, results, mainPc, waitIdx,
                   initial_battery, ret, battery_drain, final_read>>

\* ---- the status refresh line by line: the query, then one step for each
\* line of the answer, each step assigning the field the line holds.
Refreshing(p) == pending[p].i > 0

\* The body of the for loop for one line that parses (lines 200-204, 218-219).
assign_line(dev, line) ==
    IF dev.platform = "android"
    THEN AndroidLines(dev, <<line>>, 1)
    ELSE IosLines(dev, <<line>>, 1)

\* update_device_status returns to run_test_on_device.
RefreshReturns(p) ==
    /\ pc' = [pc EXCEPT ![p] = IF pc[p] = "pre_refresh" THEN "read_initial" ELSE "read_drain"]
    /\ history' = IF pc[p] = "pre_refresh"
                  THEN [Step(p, "pre_refresh") EXCEPT ![p].pre = devices'[p[2]].battery_level]
                  ELSE [Step(p, "post_refresh") EXCEPT ![p].post = devices'[p[2]].battery_level]

\* Lines 194-197, 212-215: subprocess.run returns the answer, or raises and
\* the except clause ends the refresh.
Query(p, answers) ==
    /\ pc[p] \in {"pre_refresh", "post_refresh"}
    /\ ~Refreshing(p)
    /\ \E answer \in answers :
        IF answer.raised
        THEN /\ UNCHANGED <<devices, pending>>
             /\ RefreshReturns(p)
        ELSE /\ pending' = [pending EXCEPT ![p] = Parsing(answer.lines, devices[p[2]])]
             /\ UNCHANGED <<devices, pc, history>>
    /\ UNCHANGED <<elsewhere, attempts>>
    /\ UNCHANGED <<test_suite, max_workers, results, mainPc, waitIdx,
                   initial_battery, ret, battery_drain, final_read>>

\* The line the for loop of the refresh of p is at.
CurrentLine(p) == pending[p].lines[pending[p].i]

\* One turn of the for loop: the field is assigned on the shared record; a
\* value that does not parse raises, and the except clause ends the refresh.
\* After the last line the refresh returns.
ParseLine(p) ==
    /\ Refreshing(p)
    /\ IF CurrentLine(p).ok
       THEN /\ devices' = [devices EXCEPT ![p[2]] = assign_line(@, CurrentLine(p))]
            /\ IF pending[p].i < Len(pending[p].lines)
               THEN /\ pending' = [pending EXCEPT ![p].i = @ + 1]
                    /\ UNCHANGED <<pc, history>>
               ELSE /\ pending' = [pending EXCEPT ![p] = NoPending]
                    /\ RefreshReturns(p)
       ELSE /\ UNCHANGED devices
            /\ pending' = [pending EXCEPT ![p] = NoPending]
            /\ RefreshReturns(p)
    /\ UNCHANGED <<elsewhere, attempts>>
    /\ UNCHANGED <<test_suite, max_workers, results, mainPc, waitIdx,
                   initial_battery, ret, battery_drain, final_read>>

\* The subtraction of line 280 the other way round.
BatteryDrain_Swapped(initial, level) == level - initial

\* Line 280.
BatteryDrain(initial, level) == initial - level

ComputeDrain(p) ==
    /\ pc[p] = "read_drain"
    /\ battery_drain' =
         [battery_drain EXCEPT ![p] = BatteryDrain(initial_battery[p], devices[p[2]].battery_level)]
    /\ pc' = [pc EXCEPT ![p] = "read_final"]
    /\ UNCHANGED notScheduler
    /\ UNCHANGED <<devices, test_suite, max_workers, results, mainPc, waitIdx,
                   initial_battery, ret, final_read, history>>

\* Lines 286-287: the device record is read again for the metrics.
ReadFinal(p) ==
    /\ pc[p] = "read_final"
    /\ final_read' = [final_read EXCEPT ![p] =
                        [battery_level |-> devices[p[2]].battery_level,
                         temperature |-> devices[p[2]].temperature]]
    /\ pc' = [pc EXCEPT ![p] = "append"]
    /\ UNCHANGED notScheduler
    /\ UNCHANGED <<devices, test_suite, max_workers, results, mainPc, waitIdx,
                   initial_battery, ret, battery_drain, history>>

\* Lines 285-287: the battery metrics are added to the test-run's metrics.
ResultMetrics(metrics, drain, read) ==
    SetItem(SetItem(SetItem(metrics, "battery_drain", drain),
                    "final_battery", read.battery_level),
            "temperature", read.temperature)

\* Line 282, duration = time.time() - start_time, in whole seconds: a
\* test-run that timed out has lasted its timeout, another one a second.
Elapsed(tuple) == IF tuple.output = TimedOutText THEN TimeoutSeconds ELSE 1

\* Lines 289-297.
TestResult(p, tuple, metrics) ==
    [device_id |-> p[2], test_name |-> test_suite[p[1]], success |-> tuple.success,
     duration |-> Elapsed(tuple), output |-> tuple.output, metrics |-> metrics]

\* Line 299: self.results.append(result); the call returns, its locals are gone.
AppendResult(p) ==
    /\ pc[p] = "append"
    /\ results' = Append(results,
                    TestResult(p, ret[p],
                               ResultMetrics(ret[p].metrics, battery_drain[p], final_read[p])))
    /\ pc' = [pc EXCEPT ![p] = "done"]
    /\ initial_battery' = [initial_battery EXCEPT ![p] = 0]
    /\ ret' = [ret EXCEPT ![p] = NoTuple]
    /\ battery_drain' = [battery_drain EXCEPT ![p] = 0]
    /\ final_read' = [final_read EXCEPT ![p] = NoRead]
    /\ history' = [history EXCEPT ![p] = NoHistory]
    /\ UNCHANGED notScheduler
    /\ UNCHANGED <<devices, test_suite, max_workers, mainPc, waitIdx>>

\* The scheduler's own steps.
Scheduler ==
    \/ Submit
    \/ WaitDone
    \/ WaitTimeout
    \/ Shutdown
    \/ \E p \in Executions : Start(p)

\* The steps of run_test_on_device that take nothing from the adapter.
Locals ==
    \/ \E p \in Executions : ReadInitial(p)
    \/ \E p \in Executions : ComputeDrain(p)
    \/ \E p \in Executions : ReadFinal(p)
    \/ \E p \in Executions : AppendResult(p)

\* The run over every outcome of the test itself, on devices whose battery
\* holds its level.
Next ==
    \/ Scheduler
    \/ Locals
    \/ \E p \in Executions : PreRefresh(p, SteadyAnswers(devices[p[2]].platform))
    \/ \E p \in Executions : RunTest(p, TestOutcomes(devices[p[2]].platform))
    \/ \E p \in Executions : PostRefresh(p, SteadyAnswers(devices[p[2]].platform))

Spec == Init /\ [][Next]_vars

\* The run over the levels a device reports, the tests passing.
NextBattery ==
    \/ Scheduler
    \/ Locals
    \/ \E p \in Executions : PreRefresh(p, LevelAnswers(devices[p[2]].platform))
    \/ \E p \in Executions : RunTest(p, PassingOnly(devices[p[2]].platform))
    \/ \E p \in Executions : PostRefresh(p, LevelAnswers(devices[p[2]].platform))

BatterySpec == Init /\ [][NextBattery]_vars

\* The run of a suite of one test over every answer and every behaviour of the
\* adapter.
NextExec ==
    \/ Scheduler
    \/ Locals
    \/ \E p \in Executions : PreRefresh(p, StatusAnswers(devices[p[2]].platform))
    \/ \E p \in Executions : RunTest(p, TestBehaviours(devices[p[2]].platform))
    \/ \E p \in Executions : PostRefresh(p, StatusAnswers(devices[p[2]].platform))

ExecSpec == InitWith(1) /\ [][NextExec]_vars

\* The run of a suite of one test, the refreshes taken line by line over
\* every answer, the tests passing.
NextParse ==
    \/ Scheduler
    \/ Locals
    \/ \E p \in Executions : Query(p, AllAnswers(devices[p[2]].platform))
    \/ \E p \in Executions : ParseLine(p)
    \/ \E p \in Executions : RunTest(p, PassingOnly(devices[p[2]].platform))

ParseSpec == InitWith(1) /\ [][NextParse]_vars

\* The run of the suite on devices whose battery holds its level, the
\* refreshes taken line by line, the tests passing.
NextWriter ==
    \/ Scheduler
    \/ Locals
    \/ \E p \in Executions : Query(p, SteadyAnswers(devices[p[2]].platform))
    \/ \E p \in Executions : ParseLine(p)
    \/ \E p \in Executions : RunTest(p, PassingOnly(devices[p[2]].platform))

WriterSpec == Init /\ [][NextWriter]_vars

\* ------------------------------------------------ DeviceManager: discovery
\* What a listing command (adb devices -l, idevice_id -l) comes back with: it
\* raised e, or it listed the devices `found`.
ListingRaised(e) == [raised |-> TRUE, error |-> e, found |-> {}]

Listed(found) == [raised |-> FALSE, error |-> NoError, found |-> found]

IdeviceMissing ==
    [type |-> "FileNotFoundError",
     msg |-> "[Errno 2] No such file or directory: 'idevice_id'"]

\* self.devices[device_id] = device, for every listed device. The property
\* queries (_get_android_properties, _get_ios_info) catch every exception and
\* the device is registered with what they returned.
Register(devs, found) ==
    [d \in DOMAIN devs \cup found |-> IF d \in found THEN Device(d) ELSE devs[d]]

\* DeviceManager._discover_android_devices and _discover_ios_devices: both
\* except clauses only log.
discover_platform(devs, answer) ==
    IF answer.raised THEN devs ELSE Register(devs, answer.found)

AndroidIds == {d \in DeviceIds : Platform(d) = "android"}

IosIds == {d \in DeviceIds : Platform(d) = "ios"}

\* The answers of the Android listing: adb timed out, adb is missing, or the
\* connected devices are listed.
AndroidListings ==
    {ListingRaised(TimeoutExpired), ListingRaised(AdbMissing)}
        \cup {Listed(ids) : ids \in SUBSET AndroidIds}

IosListings ==
    {ListingRaised(TimeoutExpired), ListingRaised(IdeviceMissing)}
        \cup {Listed(ids) : ids \in SUBSET IosIds}

\* ------------------------------------------------------ main of orchestrator.py
NoDevice == [d \in {} |-> Device(d)]

\* The state when main calls DeviceManager(): nothing discovered, no
\* TestRunner yet; max_workers is what --parallel will give.
MainInit ==
    /\ devices = NoDevice
    /\ test_suite = SubSeq(SuiteNames, 1, 1)
    /\ max_workers \in 1..MaxWorkers
    /\ results = <<>>
    /\ mainPc = "discover_android"
    /\ waitIdx = 0
    /\ pc = [p \in Pairs |-> "unsubmitted"]
    /\ initial_battery = [p \in Pairs |-> 0]
    /\ ret = [p \in Pairs |-> NoTuple]
    /\ battery_drain = [p \in Pairs |-> 0]
    /\ final_read = [p \in Pairs |-> NoRead]
    /\ history = [p \in Pairs |-> NoHistory]
    /\ attempts = [p \in Pairs |-> 0]
    /\ pending = [p \in Pairs |-> NoPending]
    /\ exited = <<>>
    /\ reports = 0
    /\ md_report = NoReport
    /\ json_report = NoReport
    /\ OthersInit({"darwin"})

\* Line 62, inside DeviceManager() of line 567.
DiscoverAndroid ==
    /\ mainPc = "discover_android"
    /\ \E answer \in AndroidListings : devices' = discover_platform(devices, answer)
    /\ mainPc' = "discover_ios"
    /\ UNCHANGED <<test_suite, max_workers, results, waitIdx, pc, initial_battery,
                   ret, battery_drain, final_read, history, attempts, pending>>
    /\ UNCHANGED elsewhere

\* Line 63.
DiscoverIos ==
    /\ mainPc = "discover_ios"
    /\ \E answer \in IosListings : devices' = discover_platform(devices, answer)
    /\ mainPc' = "check_devices"
    /\ UNCHANGED <<test_suite, max_workers, results, waitIdx, pc, initial_battery,
                   ret, battery_drain, final_read, history, attempts, pending>>
    /\ UNCHANGED elsewhere

\* A main that goes on without a device.
DevicesFound_Unchecked(devs) == TRUE

\* Line 569: if not device_manager.devices.
DevicesFound(devs) == DOMAIN devs # {}

\* Lines 570-571: sys.exit(1).
NoDevicesExit ==
    /\ mainPc = "check_devices"
    /\ ~DevicesFound(devices)
    /\ exited' = <<1>>
    /\ mainPc' = "exited"
    /\ UNCHANGED <<reports, md_report, json_report, otherPrograms>>
    /\ UNCHANGED <<devices, test_suite, max_workers, results, waitIdx, pc,
                   initial_battery, ret, battery_drain, final_read, history,
                   attempts, pending>>

\* Line 576: TestRunner(device_manager); line 579 calls run_parallel_tests.
NewTestRunner ==
    /\ mainPc = "check_devices"
    /\ DevicesFound(devices)
    /\ mainPc' = "start"
    /\ results' = <<>>
    /\ pc' = [p \in Pairs |-> "unsubmitted"]
    /\ initial_battery' = [p \in Pairs |-> 0]
    /\ ret' = [p \in Pairs |-> NoTuple]
    /\ battery_drain' = [p \in Pairs |-> 0]
    /\ final_read' = [p \in Pairs |-> NoRead]
    /\ history' = [p \in Pairs |-> NoHistory]
    /\ attempts' = [p \in Pairs |-> 0]
    /\ pending' = [p \in Pairs |-> NoPending]
    /\ UNCHANGED <<devices, test_suite, max_workers, waitIdx>>
    /\ UNCHANGED elsewhere

\* The results of one test, in the order of the list (line 475).
RECURSIVE ResultsNamed(_, _)
ResultsNamed(rs, name) ==
    IF rs = <<>> THEN <<>>
    ELSE IF Head(rs).test_name = name
    THEN <<Head(rs)>> \o ResultsNamed(Tail(rs), name)
    ELSE ResultsNamed(Tail(rs), name)

BatteryKeys == {"battery_drain", "final_battery", "temperature"}

\* isinstance(value, (int, float)): lines 285-287 store numbers, the parsers
\* store what they parsed.
IsNumber(metrics, key) == key \in BatteryKeys \/ metrics[key].num

\* Lines 484-490 for the results of one test: the keys are those of the first
\* result; when its value is a number, sum(values) adds the values of every
\* result that has the key, and raises TypeError on a value that is text.
SummaryRaises(test_results) ==
    \E key \in DOMAIN test_results[1].metrics :
        /\ IsNumber(test_results[1].metrics, key)
        /\ \E i \in DOMAIN test_results :
            /\ key \in DOMAIN test_results[i].metrics
            /\ ~IsNumber(test_results[i].metrics, key)

\* generate_markdown_report raises TypeError at line 489.
ReportRaises(rs) ==
    \E i \in DOMAIN rs : SummaryRaises(ResultsNamed(rs, rs[i].test_name))

\* ------------------------------------------------------------ ReportGenerator
\* f"{x:.0f}", f"{x:.1f}", f"{x:.2f}" of the quotient a/b, as the integer
\* a/b rounded to the nearest, a tie going to the even neighbour.
RoundHalfEven(a, b) ==
    LET q == a \div b
        r == a % b
    IN IF 2 * r < b THEN q
       ELSE IF 2 * r > b THEN q + 1
       ELSE IF q % 2 = 0 THEN q ELSE q + 1

\* The results of one device, in the order of the list (lines 460, 498).
RECURSIVE ResultsOn(_, _)
ResultsOn(rs, id) ==
    IF rs = <<>> THEN <<>>
    ELSE IF Head(rs).device_id = id
    THEN <<Head(rs)>> \o ResultsOn(Tail(rs), id)
    ELSE ResultsOn(Tail(rs), id)

\* sum(values) of a list of numbers.
RECURSIVE Sum(_)
Sum(values) == IF values = <<>> THEN 0 ELSE Head(values) + Sum(Tail(values))

\* sum(1 for r in rs if r.success), lines 462, 476.
CountPassed(rs) == Sum([i \in DOMAIN rs |-> IF rs[i].success THEN 1 ELSE 0])

\* devices.values(): the records in the order they were registered.
DeviceValues(devs) ==
    [i \in 1..Cardinality(DOMAIN devs) |->
        devs[CHOOSE d \in DOMAIN devs : Cardinality({e \in DOMAIN devs : e <= d}) = i]]

NoTests == [tests |-> FALSE, percent |-> 0]

PercentPass(percent) == [tests |-> TRUE, percent |-> percent]

\* Lines 460-465: the status column of a device, "No tests" or "N% pass".
DeviceStatus(device_results) ==
    IF device_results = <<>> THEN NoTests
    ELSE PercentPass(RoundHalfEven(CountPassed(device_results) * 100,
                                   Len(device_results)))

\* Lines 458-468: one row of the device summary table for every device (the
\* id stands for the device's name and OS version).
DeviceRow(rs, device) ==
    [device |-> device.id, platform |-> device.platform,
     battery_start |-> device.battery_level, battery_end |-> device.battery_level,
     status |-> DeviceStatus(ResultsOn(rs, device.id))]

DeviceSummary(rs, devs) ==
    [i \in DOMAIN DeviceValues(devs) |-> DeviceRow(rs, DeviceValues(devs)[i])]

\* The number a metric holds.
MetricValue(metrics, key) == IF key \in BatteryKeys THEN metrics[key] ELSE metrics[key].n

\* Line 487: the results of the test that have the key.
RECURSIVE Having(_, _)
Having(test_results, key) ==
    IF test_results = <<>> THEN <<>>
    ELSE IF key \in DOMAIN Head(test_results).metrics
    THEN <<Head(test_results)>> \o Having(Tail(test_results), key)
    ELSE Having(Tail(test_results), key)

\* Line 486: the keys summarized are those of the first result of the test.
SummaryKeys(test_results) == DOMAIN test_results[1].metrics

\* Lines 484-490: the average of every key whose first value is a number, in
\* hundredths.
MetricsSummary(test_results) ==
    [key \in {k \in SummaryKeys(test_results) :
                Having(test_results, k) # <<>>
                    /\ IsNumber(Having(test_results, k)[1].metrics, k)} |->
        LET having == Having(test_results, key)
            values == [i \in DOMAIN having |-> MetricValue(having[i].metrics, key)]
        IN RoundHalfEven(Sum(values) * 100, Len(values))]

\* A pass rate that counts every result as passed.
PassedCount_All(test_results) == Len(test_results)

\* Line 476.
PassedCount(test_results) == CountPassed(test_results)

\* Lines 475-492: the block of one test. The pass rate is in tenths of a
\* percent, the average duration in hundredths of a second.
TestBlock(test_results) ==
    [passed |-> PassedCount(test_results),
     total |-> Len(test_results),
     pass_rate |-> RoundHalfEven(PassedCount(test_results) * 1000, Len(test_results)),
     average_duration |->
        RoundHalfEven(Sum([i \in DOMAIN test_results |-> test_results[i].duration]) * 100,
                      Len(test_results)),
     metrics |-> MetricsSummary(test_results)]

\* Line 473: set(r.test_name for r in self.results).
TestNames(rs) == {rs[i].test_name : i \in DOMAIN rs}

\* Lines 473-492: a block for each test name; the order of the blocks is the
\* iteration order of the set.
TestSummary(rs) == [name \in TestNames(rs) |-> TestBlock(ResultsNamed(rs, name))]

\* Lines 504-513: the line of one result, with the first line of the output of
\* a failed one.
DetailLine(r) ==
    [passed |-> r.success, test_name |-> r.test_name, duration |-> r.duration * 100,
     error_lines |-> IF ~r.success /\ r.output # "" THEN <<r.output>> ELSE <<>>]

\* Lines 497-515: a section for every device that has results.
DetailSection(rs, device) ==
    [device |-> device.id, platform |-> device.platform,
     lines |-> [i \in DOMAIN ResultsOn(rs, device.id) |->
                    DetailLine(ResultsOn(rs, device.id)[i])]]

DetailedResults(rs, devs) ==
    SelectSeq([i \in DOMAIN DeviceValues(devs) |-> DetailSection(rs, DeviceValues(devs)[i])],
              LAMBDA section : section.lines # <<>>)

\* A header that counts the devices in place of the results.
TotalTests_Devices(rs, devs) == Cardinality(DOMAIN devs)

\* Lines 451, 525: len(self.results).
TotalTests(rs, devs) == Len(rs)

TypeErrorRaised == [kind |-> "raised", error |-> "TypeError"]

\* A call of a method of ReportGenerator: what it returns (or raises), and
\* the objects self.results and self.devices refer to as the call leaves them.
Call(returns, rs, devs) == [returns |-> returns, results |-> rs, devices |-> devs]

\* A report that takes the results off the list as it goes through them.
generate_markdown_report_Consuming(rs, devs) ==
    Call([kind |-> "markdown", total_tests |-> Len(rs)], <<>>, devs)

\* ReportGenerator.generate_markdown_report, lines 446-517: it reads
\* self.results and self.devices and builds new lists and strings only.
generate_markdown_report(rs, devs) ==
    IF ReportRaises(rs) THEN Call(TypeErrorRaised, rs, devs)
    ELSE Call([kind |-> "markdown",
               devices_tested |-> Cardinality(DOMAIN devs),
               total_tests |-> TotalTests(rs, devs),
               device_summary |-> DeviceSummary(rs, devs),
               test_summary |-> TestSummary(rs),
               detailed_results |-> DetailedResults(rs, devs)],
              rs, devs)

\* ReportGenerator.generate_json_report, lines 519-531: asdict copies every
\* device and every result into the document.
generate_json_report(rs, devs) ==
    Call([kind |-> "json",
          metadata |-> [devices_tested |-> Cardinality(DOMAIN devs),
                        total_tests |-> Len(rs)],
          devices |-> DeviceValues(devs),
          results |-> rs],
         rs, devs)

\* generate_markdown_report is called on the results and devices of the run.
GenerateMarkdown ==
    /\ mainPc = "returned"
    /\ md_report = NoReport
    /\ LET call == generate_markdown_report(results, devices)
       IN /\ md_report' = call.returns
          /\ results' = call.results
          /\ devices' = call.devices
    /\ UNCHANGED <<exited, reports, json_report, otherPrograms>>
    /\ UNCHANGED <<test_suite, max_workers, mainPc, waitIdx, pc, initial_battery,
                   ret, battery_drain, final_read, history, attempts, pending>>

\* generate_json_report is called on the results and devices of the run.
GenerateJson ==
    /\ mainPc = "returned"
    /\ json_report = NoReport
    /\ LET call == generate_json_report(results, devices)
       IN /\ json_report' = call.returns
          /\ results' = call.results
          /\ devices' = call.devices
    /\ UNCHANGED <<exited, reports, md_report, otherPrograms>>
    /\ UNCHANGED <<test_suite, max_workers, mainPc, waitIdx, pc, initial_battery,
                   ret, battery_drain, final_read, history, attempts, pending>>

\* Lines 583-584, save_reports: the Markdown report is generated and written,
\* then the JSON report; an exception of generate_markdown_report leaves
\* save_reports and main, and the process ends with a traceback and status 1.
SaveReports ==
    /\ mainPc = "returned"
    /\ exited = <<>>
    /\ LET md == generate_markdown_report(results, devices)
           js == generate_json_report(md.results, md.devices)
       IN IF md.returns = TypeErrorRaised
          THEN /\ md_report' = md.returns
               /\ json_report' = json_report
               /\ results' = md.results
               /\ devices' = md.devices
               /\ reports' = reports /\ mainPc' = "exited" /\ exited' = <<1>>
          ELSE /\ md_report' = md.returns
               /\ json_report' = js.returns
               /\ results' = js.results
               /\ devices' = js.devices
               /\ reports' = reports + 1 /\ mainPc' = "summary" /\ exited' = exited
    /\ UNCHANGED otherPrograms
    /\ UNCHANGED <<test_suite, max_workers, waitIdx, pc,
                   initial_battery, ret, battery_drain, final_read, history,
                   attempts, pending>>

\* sum(1 for r in results if r.success), line 588.
Passed(rs) == Cardinality({i \in DOMAIN rs : rs[i].success})

\* Lines 587-596: the summary is logged and main returns, the process ends
\* with status 0; passed_tests/total_tests raises ZeroDivisionError when there
\* is no result, the process ends with status 1.
SummaryExit(total, passed) == IF total = 0 THEN 1 ELSE 0

Summary ==
    /\ mainPc = "summary"
    /\ exited' = <<SummaryExit(Len(results), Passed(results))>>
    /\ mainPc' = "exited"
    /\ UNCHANGED <<reports, md_report, json_report, otherPrograms>>
    /\ UNCHANGED <<devices, test_suite, max_workers, results, waitIdx, pc,
                   initial_battery, ret, battery_drain, final_read, history,
                   attempts, pending>>

NextMain ==
    \/ DiscoverAndroid
    \/ DiscoverIos
    \/ NoDevicesExit
    \/ NewTestRunner
    \/ SaveReports
    \/ Summary
    \/ Scheduler
    \/ Locals
    \/ \E p \in Executions : PreRefresh(p, SteadyAnswers(devices[p[2]].platform))
    \/ \E p \in Executions : RunTest(p, ReportedOutcomes(devices[p[2]].platform))
    \/ \E p \in Executions : PostRefresh(p, SteadyAnswers(devices[p[2]].platform))

MainSpec == MainInit /\ [][NextMain]_vars

\* ------------------------------------- ReportGenerator on the results of a run
\* Bounds: the devices of the run that is reported, and the results recorded.
ReportDevices == 3
MaxResults == 3

\* The Android devices are registered first, the iOS device last.
ReportPlatform(d) == IF d = ReportDevices THEN "ios" ELSE "android"

\* A registered device whose status refreshes have answered.
ReportDevice(d) ==
    LET device == [Device(d) EXCEPT !.platform = ReportPlatform(d)]
    IN IF ReportPlatform(d) = "android"
       THEN update_android_status(device, AndroidAnswer(LevelHigh))
       ELSE update_ios_status(device, IosAnswer(LevelHigh))

\* The result run_test_on_device records for pair p when the test-run ended
\* as b and the battery held its level.
ResultOf(p, b) ==
    LET tuple == run_test(ReportPlatform(p[2]), b)
    IN TestResult(p, tuple,
                  ResultMetrics(tuple.metrics, BatteryDrain(LevelHigh, LevelHigh),
                                Status(ReportDevice(p[2]))))

\* How the test-runs of the reported run ended: the test timed out, or it
\* passed; a passed Android test logged a metric or its average as a word, a
\* passed iOS test measured its average.
SummaryOutcomes(platform) ==
    {b \in ReportedOutcomes(platform) :
        \/ b.instr.kind = "timeout"
        \/ /\ b.instr.stdout \in {AndroidPassOut, IosPassOut}
           /\ b.parsed \in IF platform = "android"
                            THEN {ParsedLog, ParsedAverageText}
                            ELSE {ParsedAverage}}

\* The lists of n results, of n different pairs, in any order of completion.
RECURSIVE ResultLists(_, _)
ResultLists(pairs, n) ==
    IF n = 0 THEN {<<>>}
    ELSE UNION {{<<ResultOf(p, b)>> \o rest :
                    b \in SummaryOutcomes(ReportPlatform(p[2])),
                    rest \in ResultLists(pairs \ {p}, n - 1)} : p \in pairs}

\* run_parallel_tests has returned; ReportGenerator(results, devices) takes
\* what it is given (lines 442-444): results of some pairs of the run.
ReportInit ==
    /\ devices = [d \in 1..ReportDevices |-> ReportDevice(d)]
    /\ test_suite = SubSeq(SuiteNames, 1, NumTests)
    /\ max_workers = MaxWorkers
    /\ results \in UNION {ResultLists(Pairs, n) : n \in 0..MaxResults}
    /\ mainPc = "returned"
    /\ waitIdx = NumPairs + 1
    /\ pc = [p \in Pairs |-> "done"]
    /\ initial_battery = [p \in Pairs |-> 0]
    /\ ret = [p \in Pairs |-> NoTuple]
    /\ battery_drain = [p \in Pairs |-> 0]
    /\ final_read = [p \in Pairs |-> NoRead]
    /\ history = [p \in Pairs |-> NoHistory]
    /\ attempts = [p \in Pairs |-> 1]
    /\ pending = [p \in Pairs |-> NoPending]
    /\ exited = <<>>
    /\ reports = 0
    /\ md_report = NoReport
    /\ json_report = NoReport
    /\ OthersInit({"darwin"})

NextReport ==
    \/ GenerateMarkdown
    \/ GenerateJson

ReportSpec == ReportInit /\ [][NextReport]_vars

\* -------------------------------------------- main of device_test_runner.py
\* adb is there but may not be executed: subprocess.run raises PermissionError.
AdbDenied ==
    [type |-> "PermissionError", msg |-> "[Errno 13] Permission denied: 'adb'"]

IosDeployMissing ==
    [type |-> "FileNotFoundError",
     msg |-> "[Errno 2] No such file or directory: 'ios-deploy'"]

IosDeployDenied ==
    [type |-> "PermissionError", msg |-> "[Errno 13] Permission denied: 'ios-deploy'"]

\* Lines 88 and 137: except FileNotFoundError is the only except clause.
RunnerCatches(e) == e.type = "FileNotFoundError"

RunnerAndroidListings ==
    {ListingRaised(AdbMissing), ListingRaised(AdbDenied)}
        \cup {Listed(ids) : ids \in SUBSET AndroidIds}

RunnerIosListings ==
    {ListingRaised(IosDeployMissing), ListingRaised(IosDeployDenied)}
        \cup {Listed(ids) : ids \in SUBSET IosIds}

\* The ids of a set as a list, in the order the listing prints them.
RECURSIVE InOrder(_)
InOrder(ids) ==
    IF ids = {} THEN <<>>
    ELSE LET d == CHOOSE e \in ids : \A f \in ids : e <= f
         IN <<d>> \o InOrder(ids \ {d})

\* One platform's discovery of DeviceTestRunner, the listing command having
\* answered: an exception that is not caught leaves discover_devices and main
\* (exit status 1); otherwise the listed devices whose info query returned a
\* DeviceInfo are appended (lines 85-87, 134-136).
RunnerDiscover(answer, informed, next) ==
    IF answer.raised /\ ~RunnerCatches(answer.error)
    THEN /\ runnerPc' = "discovery_raised"
         /\ runner_exited' = <<1>>
         /\ UNCHANGED <<runner_devices, listed>>
    ELSE /\ runnerPc' = next
         /\ runner_devices' = runner_devices \o InOrder(informed)
         /\ listed' = listed \cup informed
         /\ UNCHANGED runner_exited

\* Line 66.
RunnerDiscoverAndroid ==
    /\ runnerPc = "discover_android"
    /\ \E answer \in RunnerAndroidListings : \E informed \in SUBSET answer.found :
        RunnerDiscover(answer, informed,
                       IF sys_platform = "darwin" THEN "discover_ios" ELSE "check_devices")
    /\ UNCHANGED <<sys_platform, runner_results, scenario, device_idx>>
    /\ UNCHANGED notRunner

\* Lines 69-70: only on macOS.
RunnerDiscoverIos ==
    /\ runnerPc = "discover_ios"
    /\ \E answer \in RunnerIosListings : \E informed \in SUBSET answer.found :
        RunnerDiscover(answer, informed, "check_devices")
    /\ UNCHANGED <<sys_platform, runner_results, scenario, device_idx>>
    /\ UNCHANGED notRunner

\* Lines 542-544: sys.exit(1).
RunnerNoDevices ==
    /\ runnerPc = "check_devices"
    /\ runner_devices = <<>>
    /\ runnerPc' = "exited"
    /\ runner_exited' = <<1>>
    /\ UNCHANGED <<sys_platform, runner_devices, runner_results, scenario,
                   device_idx, listed>>
    /\ UNCHANGED notRunner

\* Line 546: run_tests is called.
RunnerStartTests ==
    /\ runnerPc = "check_devices"
    /\ runner_devices # <<>>
    /\ runnerPc' = "run_tests"
    /\ UNCHANGED <<sys_platform, runner_devices, runner_results, scenario,
                   device_idx, listed, runner_exited>>
    /\ UNCHANGED notRunner

\* The first scenarios of run_tests, lines 159-167.
Scenarios ==
    <<"ble_discovery", "peer_connection", "game_session", "background_operation">>

Outcome(status, message) == [status |-> status, message |-> message]

\* The scenario did not return: an exception left it.
Escaped(e) == [status |-> "raised", message |-> Str(e)]

\* What a scenario returns for a device of the platform: test_ble_discovery
\* catches every exception of its adb calls (lines 211-214), the next two
\* call nothing, test_background_operation calls adb outside any try.
ScenarioOutcomes(name, platform) ==
    IF name = "ble_discovery"
    THEN IF platform = "android"
         THEN {Outcome("PASS", "Found 3 peer(s)"), Outcome("FAIL", Str(AdbMissing))}
         ELSE {Outcome("SKIP", "iOS BLE discovery test not yet implemented")}
    ELSE IF name = "peer_connection"
    THEN {Outcome("PASS", "Successfully connected to 2 peers")}
    ELSE IF name = "game_session"
    THEN {Outcome("PASS", "Successfully completed game session")}
    ELSE IF platform = "android"
    THEN {Outcome("PASS", "Background BLE operations functional"), Escaped(AdbMissing)}
    ELSE {Outcome("WARNING", "iOS background BLE has limitations")}

\* Lines 169-174: the next scenario on the next device; its result is
\* appended. An exception that leaves the scenario leaves run_tests and main.
RunScenario ==
    /\ runnerPc = "run_tests"
    /\ \E o \in ScenarioOutcomes(Scenarios[scenario], Platform(runner_devices[device_idx])) :
        IF o.status = "raised"
        THEN /\ runnerPc' = "tests_raised"
             /\ runner_exited' = <<1>>
             /\ UNCHANGED <<runner_results, scenario, device_idx>>
        ELSE /\ runner_results' = Append(runner_results,
                                         [test_name |-> Scenarios[scenario],
                                          device_id |-> runner_devices[device_idx],
                                          status |-> o.status, message |-> o.message])
             /\ IF device_idx < Len(runner_devices)
                THEN device_idx' = device_idx + 1 /\ UNCHANGED <<scenario, runnerPc>>
                ELSE IF scenario < Len(Scenarios)
                THEN device_idx' = 1 /\ scenario' = scenario + 1 /\ UNCHANGED runnerPc
                ELSE runnerPc' = "report" /\ UNCHANGED <<scenario, device_idx>>
             /\ UNCHANGED runner_exited
    /\ UNCHANGED <<sys_platform, runner_devices, listed>>
    /\ UNCHANGED notRunner

\* Lines 547-554: the report is generated and main returns.
RunnerReport ==
    /\ runnerPc = "report"
    /\ runnerPc' = "exited"
    /\ runner_exited' = <<0>>
    /\ UNCHANGED <<sys_platform, runner_devices, runner_results, scenario,
                   device_idx, listed>>
    /\ UNCHANGED notRunner

NextRunner ==
    \/ RunnerDiscoverAndroid
    \/ RunnerDiscoverIos
    \/ RunnerNoDevices
    \/ RunnerStartTests
    \/ RunScenario
    \/ RunnerReport

RunnerSpec == InitOn(1, {"darwin", "linux"}) /\ [][NextRunner]_vars

\* --------------------------------------------- DeviceMonitor: calls and loop
\* The threads whose _monitor_loop has not returned.
Alive == {t \in LoopIds : loops[t] \notin {"unborn", "exited"}}

\* The sampler is Running: monitoring is set and a sampling loop is alive.
SamplerRunning == monitoring /\ Alive # {}

\* threading.Thread(target=self._monitor_loop): the next thread id.
NewThread == CHOOSE t \in LoopIds : loops[t] = "unborn" /\ \A u \in LoopIds : u < t => loops[u] # "unborn"

\* DeviceMonitor.start_monitoring, lines 44-48.
start_monitoring ==
    /\ callerPc = "ready"
    /\ \E t \in LoopIds : loops[t] = "unborn"
    /\ monitoring' = TRUE
    /\ monitor_thread' = NewThread
    /\ loops' = [loops EXCEPT ![NewThread] = "check"]
    /\ UNCHANGED <<metrics_queue, callerPc, produced, collected, failures, idle_stop>>
    /\ UNCHANGED notMonitor

\* A stop_monitoring that joins without looking at monitor_thread.
AfterStop_Unguarded(thread) == "join"

\* Lines 53-54: if self.monitor_thread: self.monitor_thread.join().
AfterStop(thread) == IF thread # 0 THEN "join" ELSE "ready"

\* DeviceMonitor.stop_monitoring, lines 50-54, up to the join.
stop_monitoring ==
    /\ callerPc = "ready"
    /\ monitoring' = FALSE
    /\ callerPc' = AfterStop(monitor_thread)
    /\ idle_stop' = (idle_stop \/ ~SamplerRunning)
    /\ UNCHANGED <<monitor_thread, metrics_queue, loops, produced, collected, failures>>
    /\ UNCHANGED notMonitor

\* The thread that line 54 joins.
Joined == monitor_thread

\* self.monitor_thread.join() returns: that thread's loop has returned.
JoinReturns ==
    /\ callerPc = "join"
    /\ loops[Joined] = "exited"
    /\ callerPc' = "ready"
    /\ UNCHANGED <<monitoring, monitor_thread, metrics_queue, loops, produced, collected, failures, idle_stop>>
    /\ UNCHANGED notMonitor

\* DeviceMonitor.get_metrics is called, lines 68-70.
get_metrics ==
    /\ callerPc = "ready"
    /\ callerPc' = "get_metrics"
    /\ UNCHANGED <<monitoring, monitor_thread, metrics_queue, loops, produced,
                   collected, failures, idle_stop>>
    /\ UNCHANGED notMonitor

\* A get that leaves the item on the queue.
Remaining_Peek(q) == q

\* Queue.get: the queue without its first item.
Remaining(q) == Tail(q)

\* Lines 71-72: the queue is not empty, its first item is taken and appended
\* to the list.
GetItem ==
    /\ callerPc = "get_metrics"
    /\ metrics_queue # <<>>
    /\ collected' = Append(collected, Head(metrics_queue))
    /\ metrics_queue' = Remaining(metrics_queue)
    /\ UNCHANGED <<monitoring, monitor_thread, loops, callerPc, produced, failures, idle_stop>>
    /\ UNCHANGED notMonitor

\* Lines 71, 73: the queue is empty, the list is returned.
GetReturns ==
    /\ callerPc = "get_metrics"
    /\ metrics_queue = <<>>
    /\ callerPc' = "ready"
    /\ UNCHANGED <<monitoring, monitor_thread, metrics_queue, loops, produced,
                   collected, failures, idle_stop>>
    /\ UNCHANGED notMonitor

\* Line 58: while self.monitoring.
LoopCheck(t) ==
    /\ loops[t] = "check"
    /\ loops' = [loops EXCEPT ![t] = IF monitoring THEN "collect" ELSE "exited"]
    /\ UNCHANGED <<monitoring, monitor_thread, metrics_queue, callerPc, produced, collected, failures, idle_stop>>
    /\ UNCHANGED notMonitor

\* Lines 59-61: collect_metrics returns a sample, which is put on the queue.
\* Samples are numbered in the order they are produced.
CollectSample(t) ==
    /\ loops[t] = "collect"
    /\ produced < MaxSamples
    /\ produced' = produced + 1
    /\ metrics_queue' = Append(metrics_queue, produced + 1)
    /\ loops' = [loops EXCEPT ![t] = "sleep"]
    /\ UNCHANGED <<monitoring, monitor_thread, callerPc, collected, failures, idle_stop>>
    /\ UNCHANGED notMonitor

\* A loop that ends when an attempt fails.
AfterFailedAttempt_LoopEnds == "exited"

\* Where _monitor_loop goes on after collect_metrics returned None: line 62.
AfterFailedAttempt == "sleep"

\* Lines 59-60: collect_metrics caught an exception and returned None (the
\* attempt failed): nothing is put.
CollectNothing(t) ==
    /\ loops[t] = "collect"
    /\ loops' = [loops EXCEPT ![t] = AfterFailedAttempt]
    /\ failures' = failures \cup {produced}
    /\ UNCHANGED <<monitoring, monitor_thread, metrics_queue, callerPc, produced, collected, idle_stop>>
    /\ UNCHANGED notMonitor

\* Line 62: time.sleep(1) returns.
Sleep(t) ==
    /\ loops[t] = "sleep"
    /\ loops' = [loops EXCEPT ![t] = "check"]
    /\ UNCHANGED <<monitoring, monitor_thread, metrics_queue, callerPc, produced, collected, failures, idle_stop>>
    /\ UNCHANGED notMonitor

NextMonitor ==
    \/ start_monitoring
    \/ stop_monitoring
    \/ JoinReturns
    \/ get_metrics
    \/ GetItem
    \/ GetReturns
    \/ \E t \in LoopIds : LoopCheck(t)
    \/ \E t \in LoopIds : CollectSample(t)
    \/ \E t \in LoopIds : CollectNothing(t)
    \/ \E t \in LoopIds : Sleep(t)

MonitorSpec == Init /\ [][NextMonitor]_vars

\* ------------------------------------- PerformanceAnalyzer: add_metrics
\* Thread t calls add_metrics(device_id, [t]): the sample it adds is named
\* after the thread. The call is taken statement by statement; no statement
\* of add_metrics holds a lock.
add_metrics(t) ==
    /\ adders[t].pc = "idle"
    /\ \E d \in DeviceIds : adders' = [adders EXCEPT ![t] = [pc |-> "check", device_id |-> d, ref |-> 0]]
    /\ UNCHANGED <<metrics_history, lists, perf_report>>
    /\ UNCHANGED notAnalyzer

\* Line 314: if device_id not in self.metrics_history.
AddCheck(t) ==
    /\ adders[t].pc = "check"
    /\ adders' = [adders EXCEPT ![t].pc =
                    IF adders[t].device_id \notin DOMAIN metrics_history
                    THEN "assign" ELSE "lookup"]
    /\ UNCHANGED <<metrics_history, lists, perf_report>>
    /\ UNCHANGED notAnalyzer

\* d[key] = value of a Python dict whose values are list objects.
SetList(dict, key, ref) ==
    [k \in DOMAIN dict \cup {key} |-> IF k = key THEN ref ELSE dict[k]]

\* Line 315: self.metrics_history[device_id] = [], a new list object.
AddAssign(t) ==
    /\ adders[t].pc = "assign"
    /\ lists' = Append(lists, <<>>)
    /\ metrics_history' = SetList(metrics_history, adders[t].device_id, Len(lists) + 1)
    /\ adders' = [adders EXCEPT ![t].pc = "lookup"]
    /\ UNCHANGED perf_report
    /\ UNCHANGED notAnalyzer

\* Line 316, self.metrics_history[device_id]: the list object is looked up.
AddLookup(t) ==
    /\ adders[t].pc = "lookup"
    /\ adders' = [adders EXCEPT ![t].pc = "extend",
                                ![t].ref = metrics_history[adders[t].device_id]]
    /\ UNCHANGED <<metrics_history, lists, perf_report>>
    /\ UNCHANGED notAnalyzer

\* Line 316, .extend(metrics): the samples are appended to that list object,
\* and the call returns.
AddExtend(t) ==
    /\ adders[t].pc = "extend"
    /\ lists' = [lists EXCEPT ![adders[t].ref] = @ \o <<t>>]
    /\ adders' = [adders EXCEPT ![t].pc = "returned"]
    /\ UNCHANGED <<metrics_history, perf_report>>
    /\ UNCHANGED notAnalyzer

NextAnalyzer ==
    \/ \E t \in AdderIds : add_metrics(t)
    \/ \E t \in AdderIds : AddCheck(t)
    \/ \E t \in AdderIds : AddAssign(t)
    \/ \E t \in AdderIds : AddLookup(t)
    \/ \E t \in AdderIds : AddExtend(t)

AnalyzerSpec == Init /\ [][NextAnalyzer]_vars

\* ------------------------------- PerformanceAnalyzer: the report of a session
\* Bound: the number of samples of one device.
MaxSeries == 3

\* A PerformanceMetrics record. fps is <<>> for None, <<f>> for the number f.
Metrics(platform, cpu, memory, rx, tx, level, temperature, fps, drops) ==
    [platform |-> platform, cpu_usage |-> cpu, memory_usage |-> memory,
     network_rx_bytes |-> rx, network_tx_bytes |-> tx, battery_level |-> level,
     battery_temperature |-> temperature, fps |-> fps, frame_drops |-> drops]

\* What AndroidMonitor.collect_metrics returns: a sample at the high level
\* with no traffic since the last one and no frame statistics, or a sample at
\* the low level after two KB received and one sent.
AndroidSamples ==
    {Metrics("android", 10, 100, 0, 0, LevelHigh, RawTemperature \div 10, <<>>, 0),
     Metrics("android", 30, 120, 2048, 1024, LevelLow, RawTemperature \div 10, <<60>>, 2)}

\* What IOSMonitor.collect_metrics returns: the values of lines 268-302.
IosSamples == {Metrics("ios", 25, 512, 1024, 512, 85, 32, <<60>>, 2)}

SamplesOf(platform) == IF platform = "android" THEN AndroidSamples ELSE IosSamples

\* The lists of n samples.
RECURSIVE SeriesOf(_, _)
SeriesOf(samples, n) ==
    IF n = 0 THEN {<<>>}
    ELSE {<<m>> \o rest : m \in samples, rest \in SeriesOf(samples, n - 1)}

\* The list metrics_history holds for a device.
Series(device_id) == lists[metrics_history[device_id]]

\* main, lines 480-482: add_metrics(monitor.device_id, monitor.get_metrics())
\* is called for a monitor, by the one thread of main, before the report.
AddSeries ==
    /\ perf_report = NoReport
    /\ \A t \in AdderIds : adders[t].pc = "idle"
    /\ \E d \in DeviceIds, n \in 0..MaxSeries :
        \E metrics \in SeriesOf(SamplesOf(Platform(d)), n) :
            IF d \notin DOMAIN metrics_history
            THEN /\ lists' = Append(lists, metrics)
                 /\ metrics_history' = SetList(metrics_history, d, Len(lists) + 1)
            ELSE /\ Len(Series(d)) + n <= MaxSeries
                 /\ n > 0
                 /\ lists' = [lists EXCEPT ![metrics_history[d]] = @ \o metrics]
                 /\ UNCHANGED metrics_history
    /\ UNCHANGED <<adders, perf_report>>
    /\ UNCHANGED notAnalyzer

\* A number kept exact: the quotient of two integers, the second positive.
Frac(n, d) == <<n, d>>

SameNumber(a, b) == a[1] * b[2] = b[1] * a[2]

Less(a, b) == a[1] * b[2] < b[1] * a[2]

\* The last value in place of the mean.
Mean_Last(values) == Frac(values[Len(values)], 1)

\* statistics.mean.
Mean(values) == Frac(Sum(values), Len(values))

\* x / k.
Over(x, k) == Frac(x[1], x[2] * k)

RECURSIVE Insert(_, _)
Insert(x, sorted) ==
    IF sorted = <<>> THEN <<x>>
    ELSE IF x <= Head(sorted) THEN <<x>> \o sorted
    ELSE <<Head(sorted)>> \o Insert(x, Tail(sorted))

RECURSIVE Sorted(_)
Sorted(values) ==
    IF values = <<>> THEN <<>> ELSE Insert(Head(values), Sorted(Tail(values)))

\* statistics.median: the middle value, or the mean of the two middle values.
Median(values) ==
    LET n == Len(values)
        sorted == Sorted(values)
    IN IF n % 2 = 1 THEN Frac(sorted[(n + 1) \div 2], 1)
       ELSE Frac(sorted[n \div 2] + sorted[n \div 2 + 1], 2)

\* A standard deviation, kept as its square.
Root(square) == [square |-> square]

\* statistics.stdev: the root of the sum of squared deviations from the mean
\* over n - 1, which is (n * sum(x^2) - sum(x)^2) / (n * (n - 1)).
Stdev(values) ==
    LET n == Len(values)
    IN Root(Frac(n * Sum([i \in DOMAIN values |-> values[i] * values[i]])
                    - Sum(values) * Sum(values),
                 n * (n - 1)))

\* min() of an empty list raises ValueError (line 358).
ValueErrorRaised == [kind |-> "raised", error |-> "ValueError"]

\* Line 362: statistics.stdev(values) if len(values) > 1 else 0.
StdevOrZero(values) == IF Len(values) > 1 THEN Stdev(values) ELSE Root(Frac(0, 1))

\* PerformanceAnalyzer._analyze_metric, lines 354-363, on the values of the
\* field.
analyze_metric(values) ==
    IF values = <<>> THEN ValueErrorRaised
    ELSE [kind |-> "analysis",
          min |-> Sorted(values)[1],
          max |-> Sorted(values)[Len(values)],
          avg |-> Mean(values),
          median |-> Median(values),
          stdev |-> StdevOrZero(values)]

\* The values of one field of the samples.
Field(metrics, name) == [i \in DOMAIN metrics |-> metrics[i][name]]

\* PerformanceAnalyzer._analyze_graphics, lines 365-383.
analyze_graphics(metrics) ==
    LET with_fps == SelectSeq(metrics, LAMBDA m : m.fps # <<>>)
        fps_values == [i \in DOMAIN with_fps |-> with_fps[i].fps[1]]
        total_drops == Sum(Field(metrics, "frame_drops"))
    IN IF fps_values # <<>>
       THEN [avg_fps |-> <<Mean(fps_values)>>, min_fps |-> <<Sorted(fps_values)[1]>>,
             total_frame_drops |-> total_drops,
             drop_rate |-> Frac(total_drops, Len(metrics))]
       ELSE [avg_fps |-> <<>>, min_fps |-> <<>>, total_frame_drops |-> 0,
             drop_rate |-> Frac(0, 1)]

\* The drain over the time between the first and the last sample.
DrainRate_PerSecond(metrics) ==
    IF Len(metrics) = 1 THEN Frac(0, 1)
    ELSE Frac(metrics[1].battery_level - metrics[Len(metrics)].battery_level,
              Len(metrics) - 1)

\* Line 344: (first level - last level) / len(metrics).
DrainRate(metrics) ==
    Frac(metrics[1].battery_level - metrics[Len(metrics)].battery_level, Len(metrics))

\* Lines 335-340, for one direction: the total and the rate, in KB.
Network(values) ==
    [total_kb |-> Frac(Sum(values), 1024), rate_kbps |-> Over(Mean(values), 1024)]

\* Lines 329-348: the report of one device.
DeviceReport(metrics) ==
    [platform |-> metrics[1].platform,
     samples |-> Len(metrics),
     duration_seconds |-> Len(metrics),
     cpu |-> analyze_metric(Field(metrics, "cpu_usage")),
     memory |-> analyze_metric(Field(metrics, "memory_usage")),
     network |-> [rx |-> Network(Field(metrics, "network_rx_bytes")),
                  tx |-> Network(Field(metrics, "network_tx_bytes"))],
     battery |-> [start_level |-> metrics[1].battery_level,
                  end_level |-> metrics[Len(metrics)].battery_level,
                  drain_rate |-> DrainRate(metrics),
                  avg_temperature |-> Mean(Field(metrics, "battery_temperature"))],
     graphics |-> analyze_graphics(metrics)]

\* A report that analyzes the devices without samples too.
Skipped_Never(metrics) == FALSE

\* Lines 326-327: if not metrics: continue.
Skipped(metrics) == metrics = <<>>

\* PerformanceAnalyzer.generate_report, lines 318-352, on the history `series`
\* (device -> list): an exception of _analyze_metric leaves generate_report.
generate_report(series) ==
    LET reported == {d \in DOMAIN series : ~Skipped(series[d])}
    IN IF \E d \in reported : series[d] = <<>>
       THEN ValueErrorRaised
       ELSE [kind |-> "report", devices |-> [d \in reported |-> DeviceReport(series[d])]]

\* Line 485, save_report: the report is generated and written.
SaveReport ==
    /\ perf_report = NoReport
    /\ \A t \in AdderIds : adders[t].pc = "idle"
    /\ perf_report' = generate_report([d \in DOMAIN metrics_history |-> Series(d)])
    /\ UNCHANGED <<metrics_history, lists, adders>>
    /\ UNCHANGED notAnalyzer

NextAnalysis ==
    \/ AddSeries
    \/ SaveReport

AnalysisSpec == Init /\ [][NextAnalysis]_vars

\* ------------------------------------------------------------------ fairness
\* The run does not halt while a thread can take a step: the threads get to
\* run, and every adapter call returns or times out.
LiveSpec == ExecSpec /\ WF_vars(NextExec)

\* ==================================================================== claims
\* The step that records the result of pair p, and the result it records.
Recorded(p) == pc[p] = "append" /\ pc'[p] = "done"

NewResult == results'[Len(results')]

ResultsOf(p) ==
    {i \in DOMAIN results :
        results[i].device_id = p[2] /\ results[i].test_name = test_suite[p[1]]}

\* C1: when run_parallel_tests has returned, results holds exactly N x M
\* TestResults, exactly one for each (device_id, test_name) pair.
C1_OneResultPerPair ==
    mainPc = "returned" =>
        /\ Len(results) = NumPairs
        /\ \A p \in Pairs : Cardinality(ResultsOf(p)) = 1

C1_Witness ==
    /\ mainPc = "returned"
    /\ max_workers = MaxWorkers
    /\ \E i, j, k, l \in DOMAIN results :
        /\ results[i].success
        /\ results[j].output = TimedOutText
        /\ results[k].output = Str(AdbMissing)
        /\ ~results[l].success /\ results[l].output \in {AndroidFailOut, IosFailOut}

\* C2: the executions in progress at the same time, over all devices, are
\* never more than max_workers.
C2_BoundedParallelism == Cardinality(Running) <= max_workers

C2_Witness ==
    /\ max_workers = MaxWorkers
    /\ Cardinality(Running) = max_workers
    /\ \E p \in Pairs : pc[p] = "queued"
    /\ \E p, q \in Running : p[2] # q[2]

\* C3: once stop_monitoring has returned (and until monitoring is started
\* again) no sample is produced and put on the sampler's queue.
C3_NoSampleAfterStop ==
    [][(callerPc = "ready" /\ ~monitoring) => produced' = produced]_vars

\* C4: the battery_drain recorded for an execution that ran beside executions
\* of other devices only is the level its own pre-test refresh left minus the
\* level its own post-test refresh left.
C4_DrainIsOwnPreMinusPost ==
    [][\A p \in Pairs :
         (Recorded(p) /\ history[p].alone) =>
            NewResult.metrics["battery_drain"] = history[p].pre - history[p].post]_vars

C4_Witness ==
    \E p, q \in Pairs :
        /\ pc[p] = "append" /\ history[p].alone
        /\ history[p].pre = LevelHigh /\ history[p].post = LevelLow
        /\ battery_drain[p] = LevelHigh - LevelLow
        /\ q[2] # p[2] /\ pc[q] = "append"
        /\ history[q].pre = LevelLow /\ history[q].post = LevelHigh

\* C5: while the test-run of an execution is in progress, a sampler is Running.
C5_SamplerRunsDuringTest ==
    \A p \in Pairs : pc[p] = "run_test" => SamplerRunning

FullSteps == <<"pre_refresh", "run_test", "post_refresh">>

\* C6: a result is recorded only after the pre-test refresh, the test-run and
\* the post-test refresh have happened, in this order, whatever the outcome
\* of the test-run.
C6_StepsInOrder ==
    [][\A p \in Pairs : Recorded(p) => history[p].steps = FullSteps]_vars

C6_Witness ==
    \E p \in Pairs :
        /\ pc[p] = "append"
        /\ history[p].test.instr.kind = "timeout"
        /\ history[p].steps = FullSteps

\* C7: the run ends: run_parallel_tests returns, and every pair has its
\* result by then, whatever the status queries and the test-runs came back
\* with and whichever waits of the scheduler timed out.
C7_EveryPairGetsItsResult ==
    <>(mainPc = "returned" /\ \A p \in Pairs : ResultsOf(p) # {})

C7_Witness ==
    /\ mainPc = "shutdown"
    /\ \E p \in Pairs :
        /\ pc[p] = "post_refresh"
        /\ history[p].pre = DefaultBatteryLevel
        /\ history[p].test.clear.kind = "error"
    /\ \E i \in DOMAIN results : results[i].output = TimedOutText

\* C8: when the instrumented test-run has timed out, the result recorded has
\* success = false and output "Test timed out".
C8_TimeoutResult ==
    [][\A p \in Pairs :
         (Recorded(p) /\ history[p].test.instr.kind = "timeout") =>
            /\ NewResult.success = FALSE
            /\ NewResult.output = "Test timed out"]_vars

C8_Witness ==
    \E p, q \in Pairs :
        /\ devices[p[2]].platform = "android" /\ devices[q[2]].platform = "ios"
        /\ pc[p] = "done" /\ pc[q] = "append"
        /\ history[q].test.instr.kind = "timeout"
        /\ \E i \in ResultsOf(p) : results[i].output = "Test timed out"

\* C9: the metrics of the result of a timed-out execution hold the sampler's
\* samples: an entry beside the battery metrics that line 285-287 add.
C9_TimedOutMetricsHoldSamples ==
    \A i \in DOMAIN results :
        results[i].output = "Test timed out" =>
            DOMAIN results[i].metrics \ BatteryKeys # {}

\* The commands of a test-run.
Commands(b) == {b.clear, b.instr, b.dump}

C11_AtMostOneAttempt == \A p \in Pairs : attempts[p] <= 1

C11_Witness ==
    /\ mainPc = "returned"
    /\ \A p \in Pairs : attempts[p] = 1
    /\ \E i, j, k \in DOMAIN results :
        /\ results[i].output = TimedOutText
        /\ results[j].output = Str(AdbMissing)
        /\ ~results[k].success /\ results[k].output = IosFailOut

\* Discovery is over.
Discovered == mainPc \notin {"discover_android", "discover_ios"}

\* C12: when discovery has found no device, main ends with exit status 1 and
\* run_parallel_tests is never called: nothing is submitted, no test-run is
\* called, no result is recorded and no report is saved.
C12_NoDevicesNoRun ==
    (Discovered /\ DOMAIN devices = {}) =>
        /\ mainPc \in {"check_devices", "exited"}
        /\ mainPc = "exited" => exited = <<1>>
        /\ results = <<>>
        /\ reports = 0

C12_Witness == mainPc = "exited" /\ DOMAIN devices = {} /\ exited = <<1>>

\* C13: when a device was discovered, main ends with exit status 0 whatever
\* the executions' outcomes, all of them failing included; it ends with a
\* non-zero status only when no device was discovered.
C13_ExitStatus ==
    mainPc = "exited" =>
        /\ DOMAIN devices # {} => exited = <<0>>
        /\ exited # <<0>> => DOMAIN devices = {}

\* The elements of a list.
Range(seq) == {seq[i] : i \in DOMAIN seq}

\* C14: discovery never fails as a whole: no exception of a platform's
\* listing command leaves discover_devices, and when discovery is over the
\* devices the listings yielded are the registered ones.
C14_DiscoveryNeverFails ==
    /\ runnerPc # "discovery_raised"
    /\ runnerPc \notin {"discover_android", "discover_ios"} =>
            Range(runner_devices) = listed

\* C15: when a status refresh fails, at the query or at a line of the answer,
\* battery_level and temperature of the record are what they were before the
\* refresh: a failed refresh leaves no partially updated record.
C15_FailedRefreshKeepsRecord ==
    \A p \in Pairs :
        (Refreshing(p) /\ ~CurrentLine(p).ok) =>
            Status(devices[p[2]]) = pending[p].before

\* C16: a device's record has a single writer: two refreshes are never inside
\* their assigning loop on the record of the same device at the same time.
C16_SingleWriter ==
    \A p, q \in Pairs :
        (p # q /\ p[2] = q[2]) => ~(Refreshing(p) /\ Refreshing(q))

Samples == [i \in 1..produced |-> i]

\* C18: every sample put on the queue is delivered by get_metrics exactly
\* once and in the order of production: what get_metrics has taken so far,
\* followed by what is still on the queue, is the samples produced so far.
C18_DeliveredOnceInOrder == collected \o metrics_queue = Samples

C18_Witness ==
    /\ callerPc = "get_metrics"
    /\ monitoring
    /\ collected = <<1>>
    /\ metrics_queue = <<2>>

\* C19: at most one sampling loop is active for a sampler, also when
\* start_monitoring is called while the sampler is Running.
C19_AtMostOneLoop == Cardinality(Alive) <= 1

\* C20: concurrent add_metrics calls lose nothing: the sample of every call
\* that has returned is in the list metrics_history holds for its device.
C20_NoSampleLost ==
    \A t \in AdderIds :
        adders[t].pc = "returned" =>
            t \in Range(lists[metrics_history[adders[t].device_id]])

\* The results in every order the executions can have completed in.
Orderings(rs) == {[i \in DOMAIN rs |-> rs[f[i]]] : f \in Permutations(DOMAIN rs)}

\* C21: the per-test summary (pass rate, average duration, the metrics that
\* are summarized) does not depend on the order the executions completed in:
\* every permutation of the results gives the summary the report holds.
C21_SummaryIsOrderIndependent ==
    md_report.kind = "markdown" =>
        \A rs \in Orderings(results) :
            LET other == generate_markdown_report(rs, devices).returns
            IN other.kind = "markdown" => other.test_summary = md_report.test_summary

\* The results of one test, and those of them that passed.
Named(name) == {i \in DOMAIN results : results[i].test_name = name}

NamedPassed(name) == {i \in Named(name) : results[i].success}

\* C24: for every test name the reported pass rate is the number of passed
\* results of that name over the number of results of that name, as a
\* percentage rounded to one decimal; 2 passes of 3 results give 66.7%.
C24_PassRate ==
    md_report.kind = "markdown" =>
        \A name \in TestNames(results) :
            LET block == md_report.test_summary[name]
                passed == Cardinality(NamedPassed(name))
                total == Cardinality(Named(name))
            IN /\ block.passed = passed
               /\ block.total = total
               /\ 10 * block.pass_rate - 5 <= (10000 * passed) \div total
               /\ (10000 * passed) \div total <= 10 * block.pass_rate + 5
               /\ (passed = 2 /\ total = 3) => block.pass_rate = 667

C24_Witness ==
    /\ md_report.kind = "markdown"
    /\ \E name \in TestNames(results) :
        /\ Cardinality(Named(name)) = 3
        /\ Cardinality(NamedPassed(name)) = 2
        /\ md_report.test_summary[name].pass_rate = 667

\* The passed results the Markdown report shows for a device: the lines marked
\* as passed in the device's section.
MarkdownPassed(md, id) ==
    Cardinality({<<s, i>> \in (DOMAIN md.detailed_results) \X (1..md.total_tests) :
                    /\ md.detailed_results[s].device = id
                    /\ i \in DOMAIN md.detailed_results[s].lines
                    /\ md.detailed_results[s].lines[i].passed})

\* The passed results the JSON report holds for a device.
JsonPassed(js, id) ==
    Cardinality({i \in DOMAIN js.results :
                    js.results[i].device_id = id /\ js.results[i].success})

\* C25: the JSON report and the Markdown report of the same results and
\* devices state the same total test count, and the same number of passed
\* results for every device.
C25_ReportsAgree ==
    (md_report.kind = "markdown" /\ json_report.kind = "json") =>
        /\ md_report.total_tests = json_report.metadata.total_tests
        /\ md_report.devices_tested = json_report.metadata.devices_tested
        /\ \A id \in DOMAIN devices :
            MarkdownPassed(md_report, id) = JsonPassed(json_report, id)

C25_Witness ==
    /\ md_report.kind = "markdown" /\ json_report.kind = "json"
    /\ md_report.total_tests = MaxResults
    /\ \E id, other \in DOMAIN devices :
        /\ MarkdownPassed(md_report, id) = 1
        /\ Len(ResultsOn(results, id)) = 2
        /\ ResultsOn(results, other) = <<>>

\* The devices that have n samples when the report is generated.
WithSamples(n) == {d \in DOMAIN metrics_history : Len(Series(d)) = n}

C23_EveryDeviceReported ==
    perf_report # NoReport =>
        /\ perf_report.kind = "report"
        /\ DOMAIN metrics_history \subseteq DOMAIN perf_report.devices

\* C26: the metrics of every TestResult hold battery_drain and final_battery,
\* whatever the outcome of the test-run, and final_battery is the level the
\* execution's post-test status refresh left in the record.
C26_BatteryMetricsAlways ==
    [][\A p \in Pairs :
         Recorded(p) =>
            /\ {"battery_drain", "final_battery"} \subseteq DOMAIN NewResult.metrics
            /\ NewResult.metrics["final_battery"] = history[p].post]_vars

\* C27: the battery_level of every registered device lies in [0,100] in every
\* reachable state, and so does every final_battery recorded.
C27_BatteryLevelInRange ==
    /\ \A d \in DOMAIN devices : devices[d].battery_level \in 0..100
    /\ \A i \in DOMAIN results : results[i].metrics["final_battery"] \in 0..100

\* C28: generating the Markdown and the JSON report leaves the results list
\* and the device records as they were.
C28_RenderingMutatesNothing ==
    [][(md_report' # md_report \/ json_report' # json_report) =>
            results' = results /\ devices' = devices]_vars

C28_Witness ==
    /\ md_report.kind = "markdown" /\ json_report.kind = "json"
    /\ Len(results) = MaxResults
    /\ \E i \in DOMAIN results : ~results[i].success

\* The bytes a device's samples hold for a direction, added up from the last
\* sample to the first.
RECURSIVE TotalBytes(_, _, _)
TotalBytes(d, field, n) ==
    IF n = 0 THEN 0 ELSE Series(d)[n][field] + TotalBytes(d, field, n - 1)

\* C29: for a device that has samples, the reported RX (TX) total is the sum
\* of the samples' RX (TX) deltas in KB, the reported rate is their
\* arithmetic mean in KB, and so the total is the rate times the number of
\* samples.
C29_NetworkTotalsAndRates ==
    perf_report.kind = "report" =>
        \A d \in DOMAIN perf_report.devices :
            LET n == Len(Series(d))
                net == perf_report.devices[d].network
                rx == TotalBytes(d, "network_rx_bytes", n)
                tx == TotalBytes(d, "network_tx_bytes", n)
            IN /\ net.rx.total_kb[2] > 0 /\ net.rx.rate_kbps[2] > 0
               /\ net.tx.total_kb[2] > 0 /\ net.tx.rate_kbps[2] > 0
               /\ SameNumber(net.rx.total_kb, Frac(rx, 1024))
               /\ SameNumber(net.tx.total_kb, Frac(tx, 1024))
               /\ SameNumber(net.rx.rate_kbps, Frac(rx, 1024 * n))
               /\ SameNumber(net.tx.rate_kbps, Frac(tx, 1024 * n))
               /\ SameNumber(net.rx.total_kb, Frac(net.rx.rate_kbps[1] * n, net.rx.rate_kbps[2]))
               /\ SameNumber(net.tx.total_kb, Frac(net.tx.rate_kbps[1] * n, net.tx.rate_kbps[2]))

C29_Witness ==
    /\ perf_report.kind = "report"
    /\ \E d \in DOMAIN perf_report.devices :
        /\ Len(Series(d)) = MaxSeries
        /\ Series(d)[1].network_rx_bytes # Series(d)[MaxSeries].network_rx_bytes
        /\ SameNumber(perf_report.devices[d].network.rx.total_kb, Frac(2, 1))

\* C30: for a device that has samples, the reported drain_rate is the first
\* sample's battery level minus the last sample's, over the number of
\* samples; so with the same first and last level, a series with one sample
\* more has the smaller rate.
C30_DrainRatePerSample ==
    perf_report.kind = "report" =>
        \A d \in DOMAIN perf_report.devices :
            LET n == Len(Series(d))
                battery == perf_report.devices[d].battery
                drop == Series(d)[1].battery_level - Series(d)[n].battery_level
            IN /\ battery.drain_rate[2] > 0
               /\ SameNumber(battery.drain_rate, Frac(drop, n))
               /\ battery.start_level - battery.end_level = drop
               /\ \A m \in SamplesOf(Platform(d)) :
                    (n > 1 /\ drop > 0) =>
                        Less(DrainRate(<<Series(d)[1], m>> \o Tail(Series(d))),
                             battery.drain_rate)

C30_Witness ==
    /\ perf_report.kind = "report"
    /\ \E d \in DOMAIN perf_report.devices :
        /\ Len(Series(d)) = MaxSeries
        /\ perf_report.devices[d].battery.start_level = LevelHigh
        /\ perf_report.devices[d].battery.end_level = LevelLow
        /\ SameNumber(perf_report.devices[d].battery.drain_rate,
                      Frac(LevelHigh - LevelLow, MaxSeries))

\* ------------------------------ AndroidMonitor: the network counters
\* Bound: the number of reads of the counters.
MaxReads == 3

\* The byte counters a device shows; a counter can fall (the interface was
\* reset) and can be 0.
Counters == {0, 3, 7}

\* The line of /proc/net/dev for wlan0 after output.split(): the name, eight
\* receive fields (bytes first) and eight transmit fields (bytes first).
WlanLine(rx, tx) ==
    <<Text("wlan0:"), rx>> \o [i \in 1..7 |-> Number(0)] \o <<tx>>
        \o [i \in 1..7 |-> Number(0)]

\* What the command of line 97 prints, split at white space: the line with
\* both counters, the line with a field int() rejects, a line cut short, and
\* nothing at all (the interface is missing or adb failed).
NetOutputs ==
    {WlanLine(Number(rx), Number(tx)) : rx, tx \in Counters}
        \cup {WlanLine(Text("-"), Number(7)), WlanLine(Number(7), Text("-")),
              SubSeq(WlanLine(Number(7), Number(7)), 1, 9), <<>>}

\* A baseline of (0, 0) taken for no baseline: if any(self.last_network_stats).
Truthy_AnyNonZero(stats) == stats # NoStats /\ \E i \in DOMAIN stats : stats[i] # 0

\* Line 173, if self.last_network_stats: None is false, a tuple of two
\* numbers is true.
Truthy(stats) == stats # NoStats

\* What a call returns and the baseline it leaves.
NetCall(returns, last) == [returns |-> returns, last |-> last]

\* AndroidMonitor._parse_network_stats, lines 165-184; parts[1] and parts[9]
\* of Python are the second and the tenth part.
parse_network_stats(last, parts) ==
    IF Len(parts) >= 10
    THEN IF ~parts[2].num \/ ~parts[10].num
         THEN NetCall(<<0, 0>>, last)
         ELSE LET rx_bytes == parts[2].n
                  tx_bytes == parts[10].n
              IN IF Truthy(last)
                 THEN NetCall(<<rx_bytes - last[1], tx_bytes - last[2]>>,
                              <<rx_bytes, tx_bytes>>)
                 ELSE NetCall(<<0, 0>>, <<rx_bytes, tx_bytes>>)
    ELSE NetCall(<<0, 0>>, last)

\* One call of _parse_network_stats from collect_metrics, line 99.
ParseNetworkStats ==
    /\ Len(net_log) < MaxReads
    /\ \E output \in NetOutputs :
        LET call == parse_network_stats(last_network_stats, output)
        IN /\ last_network_stats' = call.last
           /\ net_log' = Append(net_log, [output |-> output,
                                          returns |-> call.returns,
                                          baseline |-> call.last])
    /\ UNCHANGED notNetwork

NextNetwork == ParseNetworkStats

NetworkSpec == Init /\ [][NextNetwork]_vars

\* ------------------------------------- BatteryTracker: phases and loop
\* What get_battery_snapshot returns when it returns a snapshot.
Snapshots == {Snapshot(LevelHigh, 570), Snapshot(LevelLow, 600)}

\* BatteryTestPhase.battery_drain, lines 44-48.
PhaseDrain(snapshots) ==
    IF Len(snapshots) >= 2
    THEN snapshots[1].level - snapshots[Len(snapshots)].level
    ELSE 0

\* BatteryTestPhase.average_power, lines 50-54.
AveragePower(snapshots) ==
    IF snapshots # <<>>
    THEN Frac(Sum([i \in DOMAIN snapshots |-> snapshots[i].power]), Len(snapshots))
    ELSE Frac(0, 1)

\* The threads whose _monitor_loop is still running.
TrackerAlive == {t \in LoopIds : tracker_loops[t].pc \in {"check", "collect", "load", "append"}}

\* threading.Thread(target=self._monitor_loop): the next thread id.
NextLoop == CHOOSE t \in LoopIds :
                /\ tracker_loops[t].pc = "unborn"
                /\ \A u \in LoopIds : u < t => tracker_loops[u].pc # "unborn"

\* BatteryTestPhase(name=..., start_time=...): the next phase object.
NextPhase == CHOOSE p \in PhaseIds :
                /\ ~phase_objects[p].made
                /\ \A q \in PhaseIds : q < p => phase_objects[q].made

\* A start_phase that replaces an open phase without closing it.
StartPhaseEntry_NoClose(current) == "new_phase"

\* Lines 69-70: if self.current_phase: self.end_phase().
StartPhaseEntry(current) == IF current # 0 THEN "end_close" ELSE "new_phase"

\* BatteryTracker.start_phase is called.
start_phase ==
    /\ trackerPc = "ready"
    /\ \E p \in PhaseIds : ~phase_objects[p].made
    /\ tracker_call' = "start_phase"
    /\ trackerPc' = StartPhaseEntry(current_phase)
    /\ UNCHANGED <<current_phase, phases, phase_objects, tracking, tracker_thread,
                   tracker_loops, taken>>
    /\ UNCHANGED notTracker

\* Lines 72-76: the new phase becomes the current one; start_phase returns.
MakePhase ==
    /\ trackerPc = "new_phase"
    /\ current_phase' = NextPhase
    /\ phase_objects' = [phase_objects EXCEPT ![NextPhase] = NewPhase]
    /\ trackerPc' = "ready"
    /\ UNCHANGED <<phases, tracking, tracker_thread, tracker_loops, taken,
                   tracker_call>>
    /\ UNCHANGED notTracker

\* Line 80: if self.current_phase; without a current phase end_phase returns.
EndPhaseEntry(current) == IF current # 0 THEN "end_close" ELSE "ready"

\* BatteryTracker.end_phase is called by the caller itself.
end_phase ==
    /\ trackerPc = "ready"
    /\ tracker_call' = "end_phase"
    /\ trackerPc' = EndPhaseEntry(current_phase)
    /\ UNCHANGED <<current_phase, phases, phase_objects, tracking, tracker_thread,
                   tracker_loops, taken>>
    /\ UNCHANGED notTracker

\* Lines 81-82: end_time is set and the phase is appended to phases.
EndClose ==
    /\ trackerPc = "end_close"
    /\ phase_objects' = [phase_objects EXCEPT ![current_phase].ended = TRUE]
    /\ phases' = Append(phases, current_phase)
    /\ trackerPc' = "end_report"
    /\ UNCHANGED <<current_phase, tracking, tracker_thread, tracker_loops, taken,
                   tracker_call>>
    /\ UNCHANGED notTracker

\* Lines 83-86: duration, battery drain and average power are printed.
EndReport ==
    /\ trackerPc = "end_report"
    /\ LET snapshots == phase_objects[current_phase].snapshots
       IN phase_objects' =
            [phase_objects EXCEPT ![current_phase].reported =
                <<[battery_drain |-> PhaseDrain(snapshots),
                   average_power |-> AveragePower(snapshots)]>>]
    /\ trackerPc' = "end_clear"
    /\ UNCHANGED <<current_phase, phases, tracking, tracker_thread, tracker_loops,
                   taken, tracker_call>>
    /\ UNCHANGED notTracker

\* Line 87: self.current_phase = None; end_phase returns, into start_phase
\* when start_phase called it.
EndClear ==
    /\ trackerPc = "end_clear"
    /\ current_phase' = 0
    /\ trackerPc' = IF tracker_call = "start_phase" THEN "new_phase" ELSE "ready"
    /\ UNCHANGED <<phases, phase_objects, tracking, tracker_thread, tracker_loops,
                   taken, tracker_call>>
    /\ UNCHANGED notTracker

\* BatteryTracker.start_monitoring, lines 89-93.
tracker_start_monitoring ==
    /\ trackerPc = "ready"
    /\ \E t \in LoopIds : tracker_loops[t].pc = "unborn"
    /\ tracker_call' = "start_monitoring"
    /\ tracking' = TRUE
    /\ tracker_thread' = NextLoop
    /\ tracker_loops' = [tracker_loops EXCEPT ![NextLoop].pc = "check"]
    /\ UNCHANGED <<current_phase, phases, phase_objects, taken, trackerPc>>
    /\ UNCHANGED notTracker

\* BatteryTracker.stop_monitoring, lines 95-99, up to the join.
tracker_stop_monitoring ==
    /\ trackerPc = "ready"
    /\ tracker_call' = "stop_monitoring"
    /\ tracking' = FALSE
    /\ trackerPc' = IF tracker_thread # 0 THEN "join" ELSE "stop_end"
    /\ UNCHANGED <<current_phase, phases, phase_objects, tracker_thread,
                   tracker_loops, taken>>
    /\ UNCHANGED notTracker

\* Line 99: self.monitor_thread.join() returns, that thread has ended.
TrackerJoinReturns ==
    /\ trackerPc = "join"
    /\ tracker_loops[tracker_thread].pc \in {"exited", "crashed"}
    /\ trackerPc' = "stop_end"
    /\ UNCHANGED <<current_phase, phases, phase_objects, tracking, tracker_thread,
                   tracker_loops, taken, tracker_call>>
    /\ UNCHANGED notTracker

\* Lines 100-101: if self.current_phase: self.end_phase().
StopEnd ==
    /\ trackerPc = "stop_end"
    /\ trackerPc' = EndPhaseEntry(current_phase)
    /\ UNCHANGED <<current_phase, phases, phase_objects, tracking, tracker_thread,
                   tracker_loops, taken, tracker_call>>
    /\ UNCHANGED notTracker

\* Line 105: while self.monitoring.
TrackerLoopCheck(t) ==
    /\ tracker_loops[t].pc = "check"
    /\ tracker_loops' =
         [tracker_loops EXCEPT ![t].pc = IF tracking THEN "collect" ELSE "exited"]
    /\ UNCHANGED <<current_phase, phases, phase_objects, tracking, tracker_thread,
                   taken, trackerPc, tracker_call>>
    /\ UNCHANGED notTracker

\* Where the loop goes on after line 107, `if snapshot and self.current_phase`,
\* found a snapshot: to line 108 when there is a current phase, to the sleep
\* of line 109 and the next check otherwise.
AfterTest(current) == IF current # 0 THEN "load" ELSE "check"

\* Lines 106-107: get_battery_snapshot returned a snapshot, and
\* self.current_phase is tested.
TakeSnapshot(t) ==
    /\ tracker_loops[t].pc = "collect"
    /\ taken < MaxSnapshots
    /\ taken' = taken + 1
    /\ \E s \in Snapshots :
        tracker_loops' = [tracker_loops EXCEPT ![t].pc = AfterTest(current_phase),
                                               ![t].snapshot = s]
    /\ UNCHANGED <<current_phase, phases, phase_objects, tracking, tracker_thread,
                   trackerPc, tracker_call>>
    /\ UNCHANGED notTracker

\* Lines 106-107, 109: get_battery_snapshot returned None.
TakeNothing(t) ==
    /\ tracker_loops[t].pc = "collect"
    /\ tracker_loops' = [tracker_loops EXCEPT ![t].pc = "check"]
    /\ UNCHANGED <<current_phase, phases, phase_objects, tracking, tracker_thread,
                   taken, trackerPc, tracker_call>>
    /\ UNCHANGED notTracker

\* Line 108, self.current_phase is read again: None has no attribute
\* snapshots, the AttributeError ends the thread.
LoadPhase(t) ==
    /\ tracker_loops[t].pc = "load"
    /\ tracker_loops' =
         [tracker_loops EXCEPT ![t].pc = IF current_phase # 0 THEN "append" ELSE "crashed",
                               ![t].phase = current_phase]
    /\ UNCHANGED <<current_phase, phases, phase_objects, tracking, tracker_thread,
                   taken, trackerPc, tracker_call>>
    /\ UNCHANGED notTracker

\* Line 108: .snapshots.append(snapshot) on the phase that was read; then the
\* sleep of line 109.
AppendSnapshot(t) ==
    /\ tracker_loops[t].pc = "append"
    /\ phase_objects' =
         [phase_objects EXCEPT ![tracker_loops[t].phase].snapshots =
             Append(@, tracker_loops[t].snapshot)]
    /\ tracker_loops' = [tracker_loops EXCEPT ![t].pc = "check",
                                              ![t].snapshot = NoSnapshot,
                                              ![t].phase = 0]
    /\ UNCHANGED <<current_phase, phases, tracking, tracker_thread, taken,
                   trackerPc, tracker_call>>
    /\ UNCHANGED notTracker

\* The calls of the thread that owns the tracker, in any order.
TrackerCalls ==
    \/ start_phase
    \/ MakePhase
    \/ end_phase
    \/ EndClose
    \/ EndReport
    \/ EndClear
    \/ tracker_start_monitoring
    \/ tracker_stop_monitoring
    \/ TrackerJoinReturns
    \/ StopEnd

NextTracker ==
    \/ TrackerCalls
    \/ \E t \in LoopIds : TrackerLoopCheck(t)
    \/ \E t \in LoopIds : TakeSnapshot(t)
    \/ \E t \in LoopIds : TakeNothing(t)
    \/ \E t \in LoopIds : LoadPhase(t)
    \/ \E t \in LoopIds : AppendSnapshot(t)

TrackerSpec == Init /\ [][NextTracker]_vars

\* ------------------------------------------ claims C31..C39
\* Where main is once run_parallel_tests has returned (lines 579-596).
AfterReturn == {"returned", "summary", "exited"}

\* C31: once run_parallel_tests has returned, results never changes and no
\* execution moves: at the return every submitted execution is done and has
\* appended its result, also one whose future.result timed out.
C31_ResultsStableAfterReturn ==
    [][/\ mainPc \in AfterReturn => (results' = results /\ pc' = pc)
       /\ mainPc' = "returned" =>
            /\ \A p \in Pairs : pc'[p] = "done"
            /\ Len(results') = NumPairs]_vars

C31_Witness ==
    /\ mainPc = "summary"
    /\ reports = 1
    /\ NumPairs = NumDevices
    /\ Len(results) = NumPairs
    /\ md_report.total_tests = NumPairs
    /\ \E i \in DOMAIN results : results[i].output = TimedOutText

\* C32: in every TestResult final_battery is the execution's pre-test level
\* minus its battery_drain, whatever the other executions of the same device
\* do between the lines 280 and 286.
C32_FinalIsInitialMinusDrain ==
    [][\A p \in Pairs :
         Recorded(p) =>
            NewResult.metrics["final_battery"] =
                initial_battery[p] - NewResult.metrics["battery_drain"]]_vars

\* C33: a result's output is "Test timed out" only if the instrumented
\* test-run itself exceeded its timeout: a timeout of the command that clears
\* the log or of the one that reads it does not give that output.
C33_TimedOutOnlyForTheTest ==
    [][\A p \in Pairs :
         (Recorded(p) /\ NewResult.output = "Test timed out") =>
            history[p].test.instr.kind = "timeout"]_vars

\* A step of the caller that is a stop_monitoring call on a sampler that is
\* not Running, and one that is a start_monitoring call.
IdleStop ==
    /\ callerPc = "ready" /\ ~SamplerRunning
    /\ callerPc' = "join" \/ idle_stop' # idle_stop

Started == monitor_thread' # monitor_thread

\* The sampler's series: what get_metrics has taken and what is queued.
Delivered == collected \o metrics_queue

\* C39: stop_monitoring called on a sampler that is not Running (before any
\* start, or again after a stop) returns without blocking (no join, or the
\* join of a thread that has ended), starts no loop and leaves the series as
\* it is; a start_monitoring after it makes the sampler Running on the same
\* series, which from then on only grows at its end.
C39_IdleStopIsSafe ==
    [][/\ IdleStop =>
            /\ callerPc' = "join" =>
                 (monitor_thread' \in LoopIds /\ loops'[monitor_thread'] = "exited")
            /\ loops' = loops /\ monitor_thread' = monitor_thread
            /\ metrics_queue' = metrics_queue /\ collected' = collected
            /\ produced' = produced
       /\ (idle_stop /\ Started) =>
            /\ SamplerRunning'
            /\ metrics_queue' = metrics_queue /\ collected' = collected
       /\ idle_stop =>
            /\ Len(Delivered') >= Len(Delivered)
            /\ SubSeq(Delivered', 1, Len(Delivered)) = Delivered]_vars

\* A stop was made on a sampler that was not Running, the first loop has
\* ended, and the loop of a later start has added to the series.
C39_Witness ==
    /\ idle_stop
    /\ loops[1] = "exited" /\ monitor_thread = 2 /\ SamplerRunning
    /\ callerPc = "ready"
    /\ Len(collected) = 1 /\ Len(metrics_queue) = 1

\* A read is successful when the line shows both byte counters.
Successful(output) ==
    \E rx, tx \in Counters : output = WlanLine(Number(rx), Number(tx))

\* The successful reads made so far, as indices of the log.
Reads == {i \in DOMAIN net_log : Successful(net_log[i].output)}

FirstRead == CHOOSE i \in Reads : \A j \in Reads : i <= j

LastRead == CHOOSE i \in Reads : \A j \in Reads : j <= i

\* The counter (1 for RX, 2 for TX) that read i showed.
Shown(i, k) == net_log[i].output[IF k = 1 THEN 2 ELSE 10].n

\* The baseline before call i.
BaselineBefore(i) == IF i = 1 THEN NoStats ELSE net_log[i - 1].baseline

\* C38: over any sequence of successful and failed reads of the network
\* counters, the first successful read yields (0, 0), a failed read yields
\* (0, 0) and leaves the baseline where it was, and the deltas returned so far
\* add up to the last successfully read counter minus the first, for RX and
\* for TX.
C38_DeltasTelescope ==
    /\ Reads # {} => net_log[FirstRead].returns = <<0, 0>>
    /\ \A i \in DOMAIN net_log \ Reads :
        /\ net_log[i].returns = <<0, 0>>
        /\ net_log[i].baseline = BaselineBefore(i)
    /\ \A k \in {1, 2} :
        Sum([i \in DOMAIN net_log |-> net_log[i].returns[k]]) =
            IF Reads = {} THEN 0 ELSE Shown(LastRead, k) - Shown(FirstRead, k)

\* A failed read between two successful ones, the first showing 0 and the
\* last a fallen counter.
C38_Witness ==
    /\ Len(net_log) = 3
    /\ net_log[1].output = WlanLine(Number(0), Number(7))
    /\ ~Successful(net_log[2].output)
    /\ net_log[3].returns = <<3, -4>>
    /\ last_network_stats = <<3, 3>>

\* The thread calling the tracker is between two calls, the last one being
\* stop_monitoring.
StopReturned == trackerPc = "ready" /\ tracker_call = "stop_monitoring"

\* C34: at most one monitoring loop of a BatteryTracker is active in every
\* reachable state, also after start_monitoring was called while a loop was
\* running, and when stop_monitoring has returned no started loop is left.
C34_OneTrackerLoop ==
    /\ Cardinality(TrackerAlive) <= 1
    /\ StopReturned => TrackerAlive = {}

\* A thread's _monitor_loop has ended, by returning or by an exception.
Ended(loop) == loop.pc \in {"exited", "crashed"}

\* C35: the monitoring loop never reads current_phase as None where it uses
\* it: a loop ends only by finding monitoring False at line 105, whatever
\* start_phase and end_phase do on the other thread.
C35_LoopEndsOnlyWhenStopped ==
    [][\A t \in LoopIds :
         (Ended(tracker_loops'[t]) /\ ~Ended(tracker_loops[t])) =>
            /\ tracker_loops'[t].pc = "exited"
            /\ ~tracking]_vars

\* C36: once end_phase has set a phase's end_time and appended it to phases,
\* the phase's snapshot list does not grow, so what end_phase printed is the
\* drain and the average power of the stored phase.
C36_EndedPhaseIsFrozen ==
    [][\A p \in PhaseIds :
         /\ phase_objects[p].ended =>
                phase_objects'[p].snapshots = phase_objects[p].snapshots
         /\ phase_objects'[p].reported # <<>> =>
                /\ phase_objects'[p].reported[1].battery_drain =
                       PhaseDrain(phase_objects'[p].snapshots)
                /\ phase_objects'[p].reported[1].average_power =
                       AveragePower(phase_objects'[p].snapshots)]_vars

\* The phases that are open: made and without end_time.
Open == {p \in PhaseIds : phase_objects[p].made /\ ~phase_objects[p].ended}

\* The caller's step is an end_phase call that returns at line 80.
EndPhaseOfNothing ==
    /\ trackerPc = "ready" /\ current_phase = 0
    /\ tracker_call # "end_phase" /\ tracker_call' = "end_phase"

\* C37: whatever calls of start_phase, end_phase and stop_monitoring were
\* made, at most one phase is open and it is current_phase (start_phase closes
\* an open phase before it makes the new one); phases holds ended phases only,
\* each once, in the order they were started, and between two calls it holds
\* every phase but the open one; phases grows only by the current phase, and
\* end_phase without an open phase changes nothing; when stop_monitoring has
\* returned no phase is open.
C37_PhaseBookkeeping ==
    [][/\ Open' \subseteq {current_phase'}
       /\ \A i \in DOMAIN phases' : phase_objects'[phases'[i]].ended
       /\ \A i, j \in DOMAIN phases' : i < j => phases'[i] < phases'[j]
       /\ trackerPc' = "ready" =>
            \A p \in PhaseIds :
                (phase_objects'[p].made /\ p # current_phase') =>
                    \E i \in DOMAIN phases' : phases'[i] = p
       /\ phases' # phases =>
            (current_phase # 0 /\ phases' = Append(phases, current_phase))
       /\ EndPhaseOfNothing =>
            /\ trackerPc' = "ready"
            /\ UNCHANGED <<current_phase, phases, phase_objects, tracking,
                           tracker_thread, tracker_loops, taken>>
       /\ StopReturned' => (current_phase' = 0 /\ Open' = {})]_vars

\* Two phases, the first closed by the start of the second and the second by
\* stop_monitoring, each with a snapshot.
C37_Witness ==
    /\ StopReturned
    /\ phases = <<1, 2>>
    /\ \A p \in PhaseIds : Len(phase_objects[p].snapshots) = 1
    /\ TrackerAlive = {}

====
